---- MODULE Spec2Model ----
(***************************************************************************)
(* Model of the upload path of the aliyundrive-go client                   *)
(* (package drive): CreateFile -> CalcSha1 -> CalcProof ->                 *)
(* CreateFileWithProof (handshake, part PUTs, complete), together with the *)
(* lazily refreshed bearer token used by jsonRequest.                      *)
(*                                                                         *)
(* A file is represented by its length and its read cursor; a byte is      *)
(* identified by its offset, so a PUT body is the half-open offset range   *)
(* [from, to) that the io.LimitReader of that PUT offers.                  *)
(***************************************************************************)
EXTENDS Integers, Sequences, FiniteSets, TLC

\* ---------------------------------------------------------------- bounds
\* MaxPartSize is 1 GiB in the source; the model scales it down so that
\* files of a few bytes already need several parts.
MaxPartSize == 2
\* node.Size ranges over 0..MaxSize (the file handed in has that length).
MaxSize == 4
\* the handshake response lists 0..MaxRespParts parts
MaxRespParts == 2
\* the clock runs over 0..MaxNow; the token the Drive starts with expires at 0
MaxNow == 1
\* the resolver is called at most MaxOps times
MaxOps == 3

\* ------------------------------------------------------ program constants
\* buf := make([]byte, 8) in calcProof
ProofBufLen == 8

\* ------------------------------------------------------------ input sets
\* names are sequences of characters
Names == { <<>>, <<"a">>, <<"a", ".", "L", "i", "v", "p">>, <<".", "l", "i", "v", "p">> }
ParentIds == { "", "root" }
\* what the caller hands in as `in`: a regular *os.File, an *os.File that
\* cannot seek (pipe, terminal), or any other io.Reader
InKinds == { "file", "pipe", "reader" }
Entries == { "CreateFile", "CreateFileWithProof" }
\* the methods that validate their arguments before any request
OpEntries == { "CreateFolder", "CreateFileWithProof", "Move", "Remove", "Open" }
\* drive.rootId
rootId == "root"
NodeIds == { "", "root", "n1" }
\* streams of a download url response: none (nil), or a map of 0..2 urls
StreamCounts == { -1, 0, 1, 2 }
FileIds == { "f1", "f2" }
UploadIds == { "u1", "u2" }
\* values of G(accessToken)[:16]: the numbers 0 and 7
HashPrefixes ==
    { [ i \in 1..16 |-> "0" ], [ i \in 1..16 |-> IF i = 16 THEN "7" ELSE "0" ] }
\* expires_in values a token response carries
ExpiresIns == { 1 }

VARIABLES
    entry,        \* the exported method the caller invoked
    node,         \* Node argument: ParentId, Name, Size
    inKind,       \* kind of the reader argument
    cursor,       \* read position of the reader
    sha1Code,     \* content hash handed to CreateFileWithProof
    proofCode,    \* proof code handed to CreateFileWithProof
    pc,           \* position of the invocation
    idx,          \* index of the range loop over proofResult.PartInfoList
    proofResult,  \* decoded handshake response
    ret,          \* what the invocation returned
    calls,        \* remote calls issued so far, in order
    drive,        \* Drive: accessToken, expireAt, config.RefreshToken
    now           \* time.Now().Unix() as last read by jsonRequest

\* folder creation by concurrent callers of CreateFolderRecursively
VARIABLES
    callers,      \* per caller: position, path, component index, results
    mutex,        \* drive.mutex: "free" or the caller holding it
    server,       \* folders the service holds: path and node id
    creates       \* create-folder requests issued so far, in order

\* the digest G and CalcProofOffset at work
VARIABLES
    md,           \* the message and the locals of P: n, e, u d f m, a r o p
    dout          \* G's result, and fileSize and result of CalcProofOffset

\* the other methods of the Drive
VARIABLES
    nodeId        \* nodeId argument of Move, Remove and Open

\* the path resolver of the Drive and its folder cache
VARIABLES
    folderCache,  \* drive.folderCache: folder path -> *Node
    remote,       \* the nodes the service holds: id, parent, name, type
    lastOp,       \* the resolver call that acted last
    getting       \* a Get of another goroutine, step by step

\* one call of CreateFolderRecursively, GetByPath or ListAll, step by step
VARIABLES
    walk          \* the call: its frames, its requests, the service's tree

\* CreateFileWithProof invocations running concurrently on one Drive
VARIABLES
    threads       \* per invocation: position, locals, calls issued

uploadVars == << entry, node, inKind, cursor, sha1Code, proofCode, pc, idx,
                 proofResult, ret, calls, drive, now >>

folderVars == << callers, mutex, server, creates >>

digestVars == << md, dout >>

opVars == << nodeId >>

cacheVars == << folderCache, remote, lastOp, getting >>

concVars == << threads >>

walkVars == << walk >>

\* what the upload path leaves alone
nonUploadVars == << folderVars, digestVars, opVars, cacheVars, concVars,
                  walkVars >>

\* what folder creation leaves alone
nonFolderVars == << uploadVars, digestVars, opVars, cacheVars, concVars,
                  walkVars >>

\* what the digest leaves alone
nonDigestVars == << uploadVars, folderVars, opVars, cacheVars, concVars,
                  walkVars >>

\* what the resolver leaves alone
nonCacheVars == << uploadVars, folderVars, digestVars, opVars, concVars,
                  walkVars >>

\* what concurrent invocations leave alone: all but drive and now
nonConcVars == << entry, node, inKind, cursor, sha1Code, proofCode, pc, idx,
                  proofResult, ret, calls, folderVars, digestVars, opVars,
                  cacheVars, walkVars >>

vars == << uploadVars, folderVars, digestVars, opVars, cacheVars, concVars,
          walkVars >>

\* what a call that walks a path leaves alone
nonWalkVars == << uploadVars, folderVars, digestVars, opVars, cacheVars,
                 concVars >>

\* ---------------------------------------------------------------- helpers
Min(a, b) == IF a < b THEN a ELSE b

Max(a, b) == IF a > b THEN a ELSE b

\* strings.ToLower on the characters the model uses
ToLowerChar(c) ==
    CASE c = "L" -> "l"
      [] c = "I" -> "i"
      [] c = "V" -> "v"
      [] c = "P" -> "p"
      [] OTHER -> c

ToLower(s) == [i \in 1..Len(s) |-> ToLowerChar(s[i])]

\* strings.HasSuffix
HasSuffix(s, suffix) ==
    /\ Len(s) >= Len(suffix)
    /\ SubSeq(s, Len(s) - Len(suffix) + 1, Len(s)) = suffix

LivpSuffix == << ".", "l", "i", "v", "p" >>

\* zero value of ProofResult
ZeroProofResult ==
    [ RapidUpload |-> FALSE, Exist |-> FALSE, FileId |-> "", UploadId |-> "",
      PartInfoList |-> << >> ]

\* a call record; the fields a kind of call does not use stay zero
Call(kind, status, part, from, to, fileId, uploadId, plan, bearer) ==
    [ kind |-> kind, status |-> status, part |-> part, from |-> from, to |-> to,
      file_id |-> fileId, upload_id |-> uploadId, plan |-> plan, bearer |-> bearer ]

NoReturn == [ id |-> "", err |-> "running" ]

Return(id, err) == [ id |-> id, err |-> err ]


\* ------------------------------------------------------ int32 arithmetic
\* An int32 is an integer in -2^31 .. 2^31 - 1.  The operators below are
\* Go's operators on int32, computed without leaving that range.

\* ^x
Not(x) == (-1) - x

\* a & b for 0 <= a, b < 16, bit by bit
And4 ==
    [ a \in 0..15 |-> [ b \in 0..15 |->
        (a % 2) * (b % 2)
        + 2 * (((a \div 2) % 2) * ((b \div 2) % 2))
        + 4 * (((a \div 4) % 2) * ((b \div 4) % 2))
        + 8 * ((a \div 8) * (b \div 8)) ] ]

\* the k-th group of four bits of x, in two's complement
Nibble(x, k) == (x \div (16 ^ k)) % 16

\* x & y: four bits at a time, the highest four with their sign
And(x, y) ==
    LET n(k) == And4[Nibble(x, k)][Nibble(y, k)]
    IN  n(0) + 16 * n(1) + 256 * n(2) + 4096 * n(3) + 65536 * n(4)
        + 1048576 * n(5) + 16777216 * n(6)
        + 268435456 * (IF n(7) >= 8 THEN n(7) - 16 ELSE n(7))

\* x | y: the bits of x that y lacks, and those of y
Or(x, y) == (x - And(x, y)) + y

\* x ^ y: the bits of x that y lacks, and those of y that x lacks
Xor(x, y) == (x - And(x, y)) + (y - And(x, y))

\* x << s for 0 <= s <= 30: the bits shifted out are lost, bit 31 - s
\* becomes the sign
Shl(x, s) ==
    LET p == 2 ^ (31 - s)
    IN  IF s = 0 THEN x ELSE ((x % p) - ((x \div p) % 2) * p) * (2 ^ s)

\* x >> s, which keeps the sign
Shr(x, s) == x \div (2 ^ s)

\* mutant: the shift keeps the sign
UShr_Signed(x, s) == x \div (2 ^ s)

\* int32(uint32(x) >> s) for s = 0 or 2 <= s <= 30
UShr(x, s) ==
    IF s = 0 \/ x >= 0 THEN x \div (2 ^ s)
    ELSE (x \div (2 ^ s)) + 2 ^ (32 - s)

\* ------------------------------------------------------------ the digest
\* mutant: the carry out of the low 16 bits is dropped
I_NoCarry(n, t) ==
    LET e == And(65535, n) + And(65535, t)
    IN  Or(Shl(Shr(n, 16) + Shr(t, 16), 16), And(65535, e))

I(n, t) ==
    LET e == And(65535, n) + And(65535, t)
    IN  Or(Shl(Shr(n, 16) + Shr(t, 16) + Shr(e, 16), 16), And(65535, e))

O(n, t, e, a, r, o) ==
    LET l == I(I(t, n), I(a, o))
    IN  I(Or(Shl(l, r), UShr(l, 32 - r)), e)

L(n, t, e, a, r, i, l) == O(Or(And(t, e), And(Not(t), a)), n, t, r, i, l)

A(n, t, e, a, r, i, l) == O(Or(And(t, a), And(e, Not(a))), n, t, r, i, l)

S(n, t, e, a, r, i, l) == O(Xor(Xor(t, e), a), n, t, r, i, l)

C(n, t, e, a, r, i, l) == O(Xor(e, Or(t, Not(a))), n, t, r, i, l)

\* a string is the sequence of its bytes; D packs them into words, low
\* byte first
D(n) ==
    [ w \in 1..(Shr(Len(n) - 1, 2) + 1) |->
        LET b(j) == IF 4 * (w - 1) + j + 1 <= Len(n)
                    THEN Shl(And(255, n[4 * (w - 1) + j + 1]), 8 * j)
                    ELSE 0
        IN  Or(Or(b(0), b(1)), Or(b(2), b(3))) ]

\* P up to its loop: the array of 16 words per block with the words of
\* n, the bit after the message, and the bit length t in its place
Pad(n, t) ==
    LET last == 14 + Shl(Shr(t + 64, 9), 4)
    IN  [ j \in 1..(last + 2) |->
            LET w == IF j <= Len(n) THEN n[j] ELSE 0
            IN  IF j - 1 = last THEN t
                ELSE IF j - 1 = Shr(t, 5) THEN Or(w, Shl(128, t % 32))
                ELSE w ]

\* the 64 assignments of the loop body of P, in order: the function, the
\* word n[e+x], the rotation and the constant.  The registers rotate: the
\* assignments go to u, m, f, d in turn.
PSteps ==
    << [ fn |-> "L", x |-> 0, r |-> 7, c |-> -680876936 ],
       [ fn |-> "L", x |-> 1, r |-> 12, c |-> -389564586 ],
       [ fn |-> "L", x |-> 2, r |-> 17, c |-> 606105819 ],
       [ fn |-> "L", x |-> 3, r |-> 22, c |-> -1044525330 ],
       [ fn |-> "L", x |-> 4, r |-> 7, c |-> -176418897 ],
       [ fn |-> "L", x |-> 5, r |-> 12, c |-> 1200080426 ],
       [ fn |-> "L", x |-> 6, r |-> 17, c |-> -1473231341 ],
       [ fn |-> "L", x |-> 7, r |-> 22, c |-> -45705983 ],
       [ fn |-> "L", x |-> 8, r |-> 7, c |-> 1770035416 ],
       [ fn |-> "L", x |-> 9, r |-> 12, c |-> -1958414417 ],
       [ fn |-> "L", x |-> 10, r |-> 17, c |-> -42063 ],
       [ fn |-> "L", x |-> 11, r |-> 22, c |-> -1990404162 ],
       [ fn |-> "L", x |-> 12, r |-> 7, c |-> 1804603682 ],
       [ fn |-> "L", x |-> 13, r |-> 12, c |-> -40341101 ],
       [ fn |-> "L", x |-> 14, r |-> 17, c |-> -1502002290 ],
       [ fn |-> "L", x |-> 15, r |-> 22, c |-> 1236535329 ],
       [ fn |-> "A", x |-> 1, r |-> 5, c |-> -165796510 ],
       [ fn |-> "A", x |-> 6, r |-> 9, c |-> -1069501632 ],
       [ fn |-> "A", x |-> 11, r |-> 14, c |-> 643717713 ],
       [ fn |-> "A", x |-> 0, r |-> 20, c |-> -373897302 ],
       [ fn |-> "A", x |-> 5, r |-> 5, c |-> -701558691 ],
       [ fn |-> "A", x |-> 10, r |-> 9, c |-> 38016083 ],
       [ fn |-> "A", x |-> 15, r |-> 14, c |-> -660478335 ],
       [ fn |-> "A", x |-> 4, r |-> 20, c |-> -405537848 ],
       [ fn |-> "A", x |-> 9, r |-> 5, c |-> 568446438 ],
       [ fn |-> "A", x |-> 14, r |-> 9, c |-> -1019803690 ],
       [ fn |-> "A", x |-> 3, r |-> 14, c |-> -187363961 ],
       [ fn |-> "A", x |-> 8, r |-> 20, c |-> 1163531501 ],
       [ fn |-> "A", x |-> 13, r |-> 5, c |-> -1444681467 ],
       [ fn |-> "A", x |-> 2, r |-> 9, c |-> -51403784 ],
       [ fn |-> "A", x |-> 7, r |-> 14, c |-> 1735328473 ],
       [ fn |-> "A", x |-> 12, r |-> 20, c |-> -1926607734 ],
       [ fn |-> "S", x |-> 5, r |-> 4, c |-> -378558 ],
       [ fn |-> "S", x |-> 8, r |-> 11, c |-> -2022574463 ],
       [ fn |-> "S", x |-> 11, r |-> 16, c |-> 1839030562 ],
       [ fn |-> "S", x |-> 14, r |-> 23, c |-> -35309556 ],
       [ fn |-> "S", x |-> 1, r |-> 4, c |-> -1530992060 ],
       [ fn |-> "S", x |-> 4, r |-> 11, c |-> 1272893353 ],
       [ fn |-> "S", x |-> 7, r |-> 16, c |-> -155497632 ],
       [ fn |-> "S", x |-> 10, r |-> 23, c |-> -1094730640 ],
       [ fn |-> "S", x |-> 13, r |-> 4, c |-> 681279174 ],
       [ fn |-> "S", x |-> 0, r |-> 11, c |-> -358537222 ],
       [ fn |-> "S", x |-> 3, r |-> 16, c |-> -722521979 ],
       [ fn |-> "S", x |-> 6, r |-> 23, c |-> 76029189 ],
       [ fn |-> "S", x |-> 9, r |-> 4, c |-> -640364487 ],
       [ fn |-> "S", x |-> 12, r |-> 11, c |-> -421815835 ],
       [ fn |-> "S", x |-> 15, r |-> 16, c |-> 530742520 ],
       [ fn |-> "S", x |-> 2, r |-> 23, c |-> -995338651 ],
       [ fn |-> "C", x |-> 0, r |-> 6, c |-> -198630844 ],
       [ fn |-> "C", x |-> 7, r |-> 10, c |-> 1126891415 ],
       [ fn |-> "C", x |-> 14, r |-> 15, c |-> -1416354905 ],
       [ fn |-> "C", x |-> 5, r |-> 21, c |-> -57434055 ],
       [ fn |-> "C", x |-> 12, r |-> 6, c |-> 1700485571 ],
       [ fn |-> "C", x |-> 3, r |-> 10, c |-> -1894986606 ],
       [ fn |-> "C", x |-> 10, r |-> 15, c |-> -1051523 ],
       [ fn |-> "C", x |-> 1, r |-> 21, c |-> -2054922799 ],
       [ fn |-> "C", x |-> 8, r |-> 6, c |-> 1873313359 ],
       [ fn |-> "C", x |-> 15, r |-> 10, c |-> -30611744 ],
       [ fn |-> "C", x |-> 6, r |-> 15, c |-> -1560198380 ],
       [ fn |-> "C", x |-> 13, r |-> 21, c |-> 1309151649 ],
       [ fn |-> "C", x |-> 4, r |-> 6, c |-> -145523070 ],
       [ fn |-> "C", x |-> 11, r |-> 10, c |-> -1120210379 ],
       [ fn |-> "C", x |-> 2, r |-> 15, c |-> 718787259 ],
       [ fn |-> "C", x |-> 9, r |-> 21, c |-> -343485551 ] >>

\* one assignment of the loop body: regs is << u, d, f, m >>
PStep(regs, st, x) ==
    LET Fn(n, t, e, a) ==
            CASE st.fn = "L" -> L(n, t, e, a, x, st.r, st.c)
              [] st.fn = "A" -> A(n, t, e, a, x, st.r, st.c)
              [] st.fn = "S" -> S(n, t, e, a, x, st.r, st.c)
              [] st.fn = "C" -> C(n, t, e, a, x, st.r, st.c)
    IN  Fn(regs[1], regs[2], regs[3], regs[4])

\* string(rune(b)) for 0 <= b <= 255: the UTF-8 bytes of the code point
Utf8(b) ==
    IF b < 128 THEN << b >> ELSE << 192 + Shr(b, 6), 128 + And(b, 63) >>

\* U: one rune per byte of the words, low byte first; the string is the
\* sequence of its runes, each with its UTF-8 bytes
U(n) ==
    [ j \in 1..(4 * Len(n)) |->
        LET t == 8 * (j - 1)
        IN  Utf8(And(UShr(n[Shr(t, 5) + 1], t % 32), 255)) ]

HexChars ==
    << "0", "1", "2", "3", "4", "5", "6", "7",
       "8", "9", "a", "b", "c", "d", "e", "f" >>

\* the code point range decodes from the UTF-8 bytes of a rune
DecodeRune(bs) ==
    IF Len(bs) = 1 THEN bs[1] ELSE (bs[1] % 32) * 64 + (bs[2] % 64)

\* F ranges over the runes of n and writes two digits for each
F(n) ==
    [ i \in 1..(2 * Len(n)) |->
        LET t == DecodeRune(n[(i + 1) \div 2])
        IN  IF i % 2 = 1 THEN HexChars[And(Shr(t, 4), 15) + 1]
            ELSE HexChars[And(15, t) + 1] ]

\* the value of a hexadecimal digit
HexVal(c) == (CHOOSE i \in 1..16 : HexChars[i] = c) - 1

RECURSIVE MulAddMod(_, _, _, _)
\* (r * 2^bits + dgt) mod m for 0 <= r < m, computed in 32 bits
MulAddMod(r, bits, dgt, m) ==
    IF bits = 0
    THEN IF r >= m - (dgt % m) THEN r - (m - (dgt % m)) ELSE r + (dgt % m)
    ELSE MulAddMod(IF r >= m - r THEN r - (m - r) ELSE r + r, bits - 1, dgt, m)

RECURSIVE HornerMod(_, _, _, _)
\* the number with digits ds (most significant first, `bits` bits each)
\* mod m, with acc the value of the digits already read
HornerMod(ds, bits, acc, m) ==
    IF ds = << >> THEN acc
    ELSE LET next == MulAddMod(acc, bits, Head(ds), m)
         IN  \* the value read so far stays below m
             IF next < m THEN HornerMod(Tail(ds), bits, next, m) ELSE next

\* mutant: the last 16 characters are taken
HashPrefix_Tail(g) == SubSeq(g, 17, 32)

\* G(accessToken)[:16]
HashPrefix(g) == SubSeq(g, 1, 16)

\* ------------------------------------------------------------ the reader
\* in.(*os.File) in CreateFile
IsOsFile(kind) == kind \in { "file", "pipe" }

\* (*os.File).Seek(off, 0): the new position and the returned offset; a
\* failed seek returns 0 and leaves the position alone
Seek(kind, pos, off) ==
    IF kind = "file" /\ off >= 0
    THEN [ pos |-> off, ret |-> off ]
    ELSE [ pos |-> pos, ret |-> 0 ]

\* the span io.LimitReader(in, MaxPartSize) offers when the reader stands
\* at pos: at most MaxPartSize bytes, ending at end of file
PartWindow(pos, size) ==
    [ from |-> pos, to |-> pos + Min(MaxPartSize, Max(size - pos, 0)) ]

\* ----------------------------------------------------------------- proof
\* CalcProofOffset from h = G(accessToken)[:16] on: a is the number h
\* writes in base 16, r := a % uint64(fileSize); the division panics for
\* fileSize = 0
CalcProofOffset(h, fileSize) ==
    IF fileSize = 0
    THEN [ panic |-> TRUE, value |-> 0 ]
    ELSE [ panic |-> FALSE,
           value |-> HornerMod([ i \in 1..Len(h) |-> HexVal(h[i]) ], 4, 0,
                               fileSize) ]

\* the byte of the input file at offset off
FileByte(off) == 1 + (off % 255)

\* the alphabet of base64.StdEncoding
Base64Chars ==
    << "A", "B", "C", "D", "E", "F", "G", "H", "I", "J", "K", "L", "M",
       "N", "O", "P", "Q", "R", "S", "T", "U", "V", "W", "X", "Y", "Z",
       "a", "b", "c", "d", "e", "f", "g", "h", "i", "j", "k", "l", "m",
       "n", "o", "p", "q", "r", "s", "t", "u", "v", "w", "x", "y", "z",
       "0", "1", "2", "3", "4", "5", "6", "7", "8", "9", "+", "/" >>

\* base64.StdEncoding.EncodeToString(b): every three bytes give four
\* characters of six bits each; a last group of one or two bytes gives two
\* or three characters and is filled up with "="
EncodeToString(b) ==
    [ i \in 1..(4 * ((Len(b) + 2) \div 3)) |->
        LET g       == (i - 1) \div 4
            j       == (i - 1) % 4
            byte(k) == IF 3 * g + k <= Len(b) THEN b[3 * g + k] ELSE 0
            val     == byte(1) * 65536 + byte(2) * 256 + byte(3)
        IN  IF j >= 2 /\ 3 * g + j > Len(b)
            THEN "="
            ELSE Base64Chars[((val \div (64 ^ (3 - j))) % 64) + 1] ]

\* buf after in.Read(buf): the bytes read, then the zeros make() put there
ProofBuf(off, nread) ==
    [ i \in 1..ProofBufLen |-> IF i <= nread THEN FileByte(off + i - 1) ELSE 0 ]

NoProof == [ set |-> FALSE, off |-> 0, nread |-> 0, code |-> << >> ]

\* CalcSha1: io.Copy reads to end of file, then the cursor is reset; a read
\* error returns at once, wherever the cursor got to
CalcSha1(kind, pos, size) ==
    { [ err |-> TRUE, sha1 |-> "", cursor |-> n ] : n \in pos..Max(pos, size) }
    \cup
    { [ err |-> FALSE, sha1 |-> "SHA1",
        cursor |-> Seek(kind, Max(pos, size), 0).pos ] }

\* calcProof: seek to the offset, read up to 8 bytes into an 8 byte buffer,
\* encode the buffer, reset the cursor; never an error once the seek
\* succeeded
calcProof(a, fileSize, kind, pos) ==
    LET start == CalcProofOffset(a, fileSize)
        s1    == Seek(kind, pos, start.value)
        nread == Min(ProofBufLen, Max(fileSize - s1.pos, 0))
    IN  IF start.panic
        THEN [ panic |-> TRUE, err |-> FALSE, proof |-> NoProof, cursor |-> pos ]
        ELSE IF s1.ret # start.value
        THEN [ panic |-> FALSE, err |-> TRUE, proof |-> NoProof,
               cursor |-> Seek(kind, s1.pos, 0).pos ]
        ELSE [ panic |-> FALSE, err |-> FALSE,
               proof |-> [ set |-> TRUE, off |-> s1.pos, nread |-> nread,
                           code |-> EncodeToString(ProofBuf(s1.pos, nread)) ],
               cursor |-> Seek(kind, s1.pos + nread, 0).pos ]

\* ------------------------------------------------------------- part plan
\* mutant: the remainder is not given a part of its own
makePartInfoList_NoRemainder(size) ==
    [ i \in 1..(size \div MaxPartSize) |-> [ PartNumber |-> i ] ]

makePartInfoList(size) ==
    LET partInfoNum == (IF size % MaxPartSize > 0 THEN 1 ELSE 0)
                       + (size \div MaxPartSize)
    IN  [ i \in 1..partInfoNum |-> [ PartNumber |-> i ] ]

\* ------------------------------------------------------------ validation
createCheck(n) ==
    IF n.ParentId = "" \/ n.Name = << >> THEN "ErrorMissingFields" ELSE "nil"

IsLivp(name) == HasSuffix(ToLower(name), LivpSuffix)

\* mutant: the root is not looked for
checkRoot_EmptyOnly(id) == IF id = "" THEN "empty nodeId" ELSE "nil"

checkRoot(id) ==
    IF id = "" THEN "empty nodeId"
    ELSE IF id = rootId THEN "can't operate on root "
    ELSE "nil"

\* --------------------------------------------------------------- the wire
\* token responses: a granted token, or an error document, which decodes
\* into the zero Token
TokenResponses(d) ==
    { [ AccessToken |-> d.RefreshToken + 1, ExpiresIn |-> e,
        RefreshToken |-> d.RefreshToken + 1 ] : e \in ExpiresIns }
    \cup { [ AccessToken |-> 0, ExpiresIn |-> 0, RefreshToken |-> 0 ] }

RefreshCall(d, status) ==
    Call("refresh", status, 0, 0, 0, "", "", << >>, d.RefreshToken)

\* refreshToken at time t: the outcomes of one call; the status of the
\* answer is never read, so a refusal ("refused": an error document with a
\* status >= 400) is decoded and stored like a grant
refreshToken(d, t) ==
    { [ drive |-> d, sent |-> << RefreshCall(d, st) >>, err |-> TRUE ]
        : st \in { "transport", "parse" } }
    \cup
    { [ drive |-> [ accessToken |-> tk.AccessToken,
                    expireAt |-> tk.ExpiresIn + t,
                    RefreshToken |-> tk.RefreshToken ],
        sent |-> << RefreshCall(d, IF tk.AccessToken = 0
                                   THEN "refused" ELSE "ok") >>,
        err |-> FALSE ]
        : tk \in TokenResponses(d) }

\* time.Now().Unix() read at a call: the clock never runs backwards
Clock(last) == last..MaxNow

\* the guard of the lazy refresh in jsonRequest
TokenExpired(d, t) == d.expireAt < t

\* jsonRequest at time t: `call` is the request without its bearer and
\* status, Responses the bodies the server may answer with, zero the value
\* the response variable keeps when the call fails; "unauthorized" is the
\* answer 401 to the bearer, "status" any other answer >= 400
jsonRequest(d, t, call, Responses, zero) ==
    LET pre == IF TokenExpired(d, t)
               THEN refreshToken(d, t)
               ELSE { [ drive |-> d, sent |-> << >>, err |-> FALSE ] }
        Sent(p, st) ==
            Append(p.sent, [ call EXCEPT !.status = st,
                                         !.bearer = p.drive.accessToken ])
    IN  UNION {
          IF p.err
          THEN { [ drive |-> p.drive, sent |-> p.sent, err |-> TRUE,
                   response |-> zero ] }
          ELSE { [ drive |-> p.drive, sent |-> Sent(p, st), err |-> TRUE,
                   response |-> zero ]
                   : st \in { "transport", "unauthorized", "status", "parse" } }
               \cup
               { [ drive |-> p.drive, sent |-> Sent(p, "ok"), err |-> FALSE,
                   response |-> r ] : r \in Responses }
          : p \in pre }

\* ----------------------------------------------------------- the handshake
PartList(m) == [ i \in 1..m |-> [ PartNumber |-> i ] ]

\* the create_with_proof responses: any flags, any identifiers, and a part
\* list numbered 1..m in order
ProofResults ==
    [ RapidUpload : BOOLEAN, Exist : BOOLEAN, FileId : FileIds,
      UploadId : UploadIds,
      PartInfoList : { PartList(m) : m \in 0..MaxRespParts } ]

\* mutant: the rapid_upload flag is not looked at
HandshakeOutcome_NoRapid(res) ==
    IF res.Exist THEN "exist"
    ELSE IF Len(res.PartInfoList) < 1 THEN "protocol"
    ELSE "parts"

\* mutant: the exist flag is not looked at
HandshakeOutcome_NoExist(res) ==
    IF res.RapidUpload THEN "rapid"
    ELSE IF Len(res.PartInfoList) < 1 THEN "protocol"
    ELSE "parts"

\* mutant: the length of the part list is not looked at
HandshakeOutcome_NoProtocol(res) ==
    IF res.RapidUpload THEN "rapid"
    ELSE IF res.Exist THEN "exist"
    ELSE "parts"

\* mutant: exist is looked at before rapid_upload
HandshakeOutcome_ExistFirst(res) ==
    IF res.Exist THEN "exist"
    ELSE IF res.RapidUpload THEN "rapid"
    ELSE IF Len(res.PartInfoList) < 1 THEN "protocol"
    ELSE "parts"

\* how CreateFileWithProof reads the handshake response
HandshakeOutcome(res) ==
    IF res.RapidUpload THEN "rapid"
    ELSE IF res.Exist THEN "exist"
    ELSE IF Len(res.PartInfoList) < 1 THEN "protocol"
    ELSE "parts"

HandshakeCall(n) ==
    Call("handshake", "", 0, 0, 0, "", "", makePartInfoList(n.Size), 0)

\* the body of the complete request
CompleteCall(res) ==
    Call("complete", "", 0, 0, 0, res.FileId, res.UploadId, << >>, 0)

CompleteResults == [ NodeId : FileIds ]

\* outcomes of httpClient.Do for a part PUT
PutOutcomes == { "ok", "rejected", "error" }

\* the only outcome the upload loop treats as a failure: Do returned an error
PutFails(outcome) == outcome = "error"

\* bytes of the offered span the transport has read when Do returns: all
\* of it for an accepted part, any prefix when the PUT was rejected early
\* or broke off
Consumed(outcome, w) ==
    IF outcome = "ok" THEN { w.to - w.from } ELSE 0..(w.to - w.from)

\* the range loop: the element after position i
NextPart(i) == i + 1

\* mutant: the next PUT is issued without waiting for Do to return
MayIssuePut_NoWait(p) == p \in { "put", "putwait" }

\* the loop issues the next PUT only when Do has returned
MayIssuePut(p) == p = "put"

\* ----------------------------------------------------------------- state
NoDigest ==
    [ hex |-> << >>, fileSize |-> 0, offset |-> [ panic |-> FALSE, value |-> 0 ] ]

\* no digest is being computed
DigestIdle ==
    /\ md = [ phase |-> "idle", msg |-> << >>, n |-> << >>, e |-> 0, k |-> 0,
              regs |-> << 0, 0, 0, 0 >>, saved |-> << 0, 0, 0, 0 >> ]
    /\ dout = NoDigest

\* no invocation of the single upload is running
NoUpload ==
    /\ entry = ""
    /\ node = [ ParentId |-> "", Name |-> << >>, Size |-> 0 ]
    /\ inKind = "reader"
    /\ cursor = 0
    /\ sha1Code = ""
    /\ proofCode = NoProof
    /\ pc = "idle"
    /\ idx = 0
    /\ proofResult = ZeroProofResult
    /\ ret = NoReturn
    /\ calls = << >>

\* no upload is running
UploadIdle ==
    /\ NoUpload
    /\ drive = [ accessToken |-> 1, expireAt |-> 0, RefreshToken |-> 1 ]
    /\ now = 0

\* no Move, Remove or Open is running
OpIdle == nodeId = ""

NoOp ==
    [ op |-> "", type |-> "", err |-> FALSE, had |-> FALSE, n |-> 0,
      lost |-> FALSE ]

\* no Get is under way step by step
NoGet ==
    [ pc |-> "idle", path |-> << >>, kind |-> "", level |-> 0,
      node |-> [ NodeId |-> "", Name |-> "", Type |-> "" ] ]

\* no concurrent invocations
ConcIdle == threads = << >>

\* no path is being walked
WalkIdle == walk = << >>

\* the resolver is not in use
CacheIdle ==
    /\ folderCache = << >>
    /\ remote = { }
    /\ lastOp = NoOp
    /\ getting = NoGet

\* no caller is creating folders
FolderIdle ==
    /\ callers = << >>
    /\ mutex = "free"
    /\ server = { }
    /\ creates = << >>

Init ==
    /\ FolderIdle
    /\ DigestIdle
    /\ OpIdle
    /\ CacheIdle
    /\ WalkIdle
    /\ ConcIdle
    /\ entry \in Entries
    /\ node \in [ ParentId : ParentIds, Name : Names, Size : 0..MaxSize ]
    /\ inKind \in (IF entry = "CreateFile" THEN InKinds ELSE { "file", "reader" })
    /\ cursor = 0
    /\ sha1Code = (IF entry = "CreateFile" THEN "" ELSE "SHA1")
    /\ proofCode = NoProof
    /\ pc = entry
    /\ idx = 0
    /\ proofResult = ZeroProofResult
    /\ ret = NoReturn
    /\ calls = << >>
    /\ drive = [ accessToken |-> 1, expireAt |-> 0, RefreshToken |-> 1 ]
    /\ now = 0

\* CreateFile up to its first call
CreateFile ==
    /\ pc = "CreateFile"
    /\ pc' = IF IsOsFile(inKind) THEN "CalcSha1" ELSE "CreateFileWithProof"
    /\ UNCHANGED << entry, node, inKind, cursor, sha1Code, proofCode, idx,
                    proofResult, ret, calls, drive, now >>
    /\ UNCHANGED nonUploadVars

\* in, sha1Code, _ = CalcSha1(fin)
DoCalcSha1 ==
    /\ pc = "CalcSha1"
    /\ \E r \in CalcSha1(inKind, cursor, node.Size) :
          /\ cursor' = r.cursor
          /\ sha1Code' = r.sha1
    /\ pc' = "CalcProof"
    /\ UNCHANGED << entry, node, inKind, proofCode, idx, proofResult, ret,
                    calls, drive, now >>
    /\ UNCHANGED nonUploadVars

\* in, proofCode, _ = drive.CalcProof(node.Size, fin)
DoCalcProof ==
    /\ pc = "CalcProof"
    /\ \E a \in HashPrefixes :
          LET r == calcProof(a, node.Size, inKind, cursor)
          IN  /\ cursor' = r.cursor
              /\ proofCode' = r.proof
              /\ pc' = IF r.panic THEN "panic" ELSE "CreateFileWithProof"
    /\ UNCHANGED << entry, node, inKind, sha1Code, idx, proofResult, ret,
                    calls, drive, now >>
    /\ UNCHANGED nonUploadVars

\* CreateFileWithProof from its entry to the end of the handshake block
Handshake ==
    /\ pc = "CreateFileWithProof"
    /\ IF createCheck(node) # "nil"
       THEN /\ ret' = Return("", createCheck(node))
            /\ pc' = "done"
            /\ UNCHANGED << proofResult, calls, drive, idx, now >>
       ELSE IF IsLivp(node.Name)
       THEN /\ ret' = Return("", "ErrorLivpUpload")
            /\ pc' = "done"
            /\ UNCHANGED << proofResult, calls, drive, idx, now >>
       ELSE \E t \in Clock(now) :
            \E r \in jsonRequest(drive, t, HandshakeCall(node), ProofResults,
                                 ZeroProofResult) :
            /\ now' = t
            /\ drive' = r.drive
            /\ calls' = calls \o r.sent
            /\ proofResult' = r.response
            /\ IF r.err
               THEN /\ ret' = Return("", "failed to post create file request")
                    /\ pc' = "done"
                    /\ idx' = idx
               ELSE LET o == HandshakeOutcome(r.response)
                    IN  CASE o = "rapid" ->
                               /\ ret' = Return(r.response.FileId, "nil")
                               /\ pc' = "done"
                               /\ idx' = idx
                          [] o = "exist" ->
                               /\ ret' = Return("", "ErrorAlreadyExisted")
                               /\ pc' = "done"
                               /\ idx' = idx
                          [] o = "protocol" ->
                               /\ ret' = Return("", "failed to extract uploadUrl")
                               /\ pc' = "done"
                               /\ idx' = idx
                          [] OTHER ->
                               /\ ret' = ret
                               /\ pc' = "put"
                               /\ idx' = 1
    /\ UNCHANGED << entry, node, inKind, cursor, sha1Code, proofCode >>
    /\ UNCHANGED nonUploadVars

\* one iteration of the part loop up to the call of Do
PutStart ==
    /\ MayIssuePut(pc)
    /\ LET part == proofResult.PartInfoList[idx]
           w    == PartWindow(cursor, node.Size)
       IN  \/ /\ calls' = Append(calls,
                     Call("put", "inflight", part.PartNumber, w.from, w.to,
                          "", "", << >>, 0))
              /\ pc' = "putwait"
              /\ ret' = ret
           \/ \* http.NewRequestWithContext rejects the upload URL
              /\ ret' = Return("", "failed to create upload request")
              /\ pc' = "done"
              /\ calls' = calls
    /\ UNCHANGED << entry, node, inKind, cursor, sha1Code, proofCode, idx,
                    proofResult, drive, now >>
    /\ UNCHANGED nonUploadVars

\* Do returns; the loop goes on to the next part or leaves
PutFinish ==
    /\ pc = "putwait"
    /\ \E outcome \in PutOutcomes :
       LET c == calls[Len(calls)]
       IN  \E n \in Consumed(outcome, c) :
           /\ cursor' = c.from + n
           /\ calls' = [ calls EXCEPT ![Len(calls)].status = outcome ]
           /\ IF PutFails(outcome)
              THEN /\ ret' = Return("", "failed to upload file")
                   /\ pc' = "done"
                   /\ idx' = idx
              ELSE /\ ret' = ret
                   /\ idx' = NextPart(idx)
                   /\ pc' = IF NextPart(idx) <= Len(proofResult.PartInfoList)
                            THEN "put" ELSE "complete"
    /\ UNCHANGED << entry, node, inKind, sha1Code, proofCode, proofResult,
                    drive, now >>
    /\ UNCHANGED nonUploadVars

\* the complete request and the return
Complete ==
    /\ pc = "complete"
    /\ \E t \in Clock(now) :
       \E r \in jsonRequest(drive, t, CompleteCall(proofResult),
                            CompleteResults, [ NodeId |-> "" ]) :
          /\ now' = t
          /\ drive' = r.drive
          /\ calls' = calls \o r.sent
          /\ ret' = IF r.err
                    THEN Return("", "failed to post upload complete request")
                    ELSE Return(r.response.NodeId, "nil")
    /\ pc' = "done"
    /\ UNCHANGED << entry, node, inKind, cursor, sha1Code, proofCode, idx,
                    proofResult >>
    /\ UNCHANGED nonUploadVars

Next ==
    \/ CreateFile
    \/ DoCalcSha1
    \/ DoCalcProof
    \/ Handshake
    \/ PutStart
    \/ PutFinish
    \/ Complete

Spec == Init /\ [][Next]_vars


\* ------------------------------------------- CreateFolder, Move, Remove, Open
InitOps ==
    /\ FolderIdle
    /\ DigestIdle
    /\ CacheIdle
    /\ WalkIdle
    /\ ConcIdle
    /\ entry \in OpEntries
    /\ node \in [ ParentId : ParentIds, Name : Names,
                  Size : IF entry = "CreateFileWithProof" THEN 0..MaxSize
                         ELSE { 0 } ]
    /\ nodeId \in (IF entry \in { "Move", "Remove", "Open" } THEN NodeIds
                   ELSE { "" })
    /\ inKind = "reader"
    /\ cursor = 0
    /\ sha1Code = (IF entry = "CreateFileWithProof" THEN "SHA1" ELSE "")
    /\ proofCode = NoProof
    /\ pc = entry
    /\ idx = 0
    /\ proofResult = ZeroProofResult
    /\ ret = NoReturn
    /\ calls = << >>
    /\ drive = [ accessToken |-> 1, expireAt |-> 0, RefreshToken |-> 1 ]
    /\ now = 0

\* a request about one node
NodeCall(kind, id) == Call(kind, "", 0, 0, 0, id, "", << >>, 0)

\* what the upload variables the other methods do not touch keep
OpFrame ==
    /\ UNCHANGED << entry, node, inKind, cursor, sha1Code, proofCode, idx,
                    proofResult >>
    /\ UNCHANGED nonUploadVars

\* a method that validates, posts one request and returns
PostOnce(check, call, Responses, zero, failure) ==
    IF check # "nil"
    THEN /\ ret' = Return("", check)
         /\ UNCHANGED << calls, drive, now >>
    ELSE \E t \in Clock(now) :
         \E r \in jsonRequest(drive, t, call, Responses, zero) :
            /\ now' = t
            /\ drive' = r.drive
            /\ calls' = calls \o r.sent
            /\ ret' = IF r.err THEN Return("", failure)
                      ELSE Return(r.response.NodeId, "nil")

CreateFolder ==
    /\ pc = "CreateFolder"
    /\ PostOnce(createCheck(node), NodeCall("create", node.ParentId),
                CompleteResults, [ NodeId |-> "" ],
                "failed to post create folder request")
    /\ pc' = "done"
    /\ OpFrame

Move ==
    /\ pc = "Move"
    /\ PostOnce(checkRoot(nodeId), NodeCall("move", nodeId),
                CompleteResults, [ NodeId |-> "" ],
                "failed to post move request")
    /\ pc' = "done"
    /\ OpFrame

\* Remove decodes no response
Remove ==
    /\ pc = "Remove"
    /\ PostOnce(checkRoot(nodeId), NodeCall("trash", nodeId),
                { [ NodeId |-> "" ] }, [ NodeId |-> "" ],
                "failed to post remove request")
    /\ pc' = "done"
    /\ OpFrame

\* the download url responses: a url or none, and the streams
DownloadUrls == [ Url : { "", "url" }, Streams : StreamCounts ]

\* the GET requests of Open: `done` of them answered, then one more that
\* failed when `failed` is set
OpenGets(done, failed) ==
    [ i \in 1..(done + IF failed THEN 1 ELSE 0) |->
        Call("get", IF i <= done THEN "ok" ELSE "transport",
             0, 0, 0, nodeId, "", << >>, 0) ]

\* Open: checkRoot, getDownloadUrl, then the download of the url, or of
\* every stream into a zip file
Open ==
    /\ pc = "Open"
    /\ IF checkRoot(nodeId) # "nil"
       THEN /\ ret' = Return("", checkRoot(nodeId))
            /\ UNCHANGED << calls, drive, now >>
       ELSE \E t \in Clock(now) :
            \E r \in jsonRequest(drive, t, NodeCall("get_download_url", nodeId),
                                 DownloadUrls, [ Url |-> "", Streams |-> -1 ]) :
            /\ now' = t
            /\ drive' = r.drive
            /\ IF r.err
               THEN /\ calls' = calls \o r.sent
                    /\ ret' = Return("", "failed to get node detail")
               ELSE IF r.response.Url # ""
               THEN \E failed \in BOOLEAN :
                     /\ calls' = calls \o r.sent \o OpenGets(0, failed)
                     /\ ret' = IF failed THEN Return("", "failed to download")
                               ELSE Return("body", "nil")
               ELSE IF r.response.Streams >= 0
               THEN \/ \* every stream was fetched and written to the zip
                       /\ calls' = calls \o r.sent
                                   \o OpenGets(r.response.Streams, FALSE)
                       /\ ret' \in { Return("zip", "nil"), Return("", "zip") }
                    \/ \* a stream could not be fetched or written
                       \E k \in 1..r.response.Streams :
                       \E failed \in BOOLEAN :
                          /\ calls' = calls \o r.sent
                                      \o OpenGets(k - IF failed THEN 1 ELSE 0,
                                                  failed)
                          /\ ret' = Return("", IF failed
                                               THEN "failed to download"
                                               ELSE "failed to write to zip")
               ELSE /\ calls' = calls \o r.sent
                    /\ ret' = Return("", "failed to open")
    /\ pc' = "done"
    /\ OpFrame

NextOps ==
    \/ Handshake
    \/ PutStart
    \/ PutFinish
    \/ Complete
    \/ CreateFolder
    \/ Move
    \/ Remove
    \/ Open

SpecOps == InitOps /\ [][NextOps]_vars


\* ------------------------------------------------- the resolver and its cache
FolderKind == "folder"
FileKind == "file"
AnyKind == "any"

CacheNames == { "a", "b", "x" }

\* normalized paths: the names after each "/"; << >> is "/"
CachePaths ==
    { << >> } \cup { << n >> : n \in CacheNames }
    \cup { << m, n >> : m, n \in CacheNames }
    \cup { << l, m, n >> : l, m, n \in CacheNames }

\* a *Node as the resolver hands it out
NodeOf(id, name, type) == [ NodeId |-> id, Name |-> name, Type |-> type ]

\* drive.rootNode
RootNode == NodeOf(rootId, "root", FolderKind)

NilNode == NodeOf("", "", "")

\* the tree the service starts with: /a, /a/b, and the file /a/b/x
InitialRemote ==
    { [ NodeId |-> "n1", parent |-> rootId, Name |-> "a", Type |-> FolderKind ],
      [ NodeId |-> "n2", parent |-> "n1", Name |-> "b", Type |-> FolderKind ],
      [ NodeId |-> "n3", parent |-> "n2", Name |-> "x", Type |-> FileKind ] }

Handle(n) == NodeOf(n.NodeId, n.Name, n.Type)

\* findNameNode: list the children of `under` and take the one with the
\* name and the kind; the listing of folder `bad` fails
findNameNode(rem, under, name, kind, bad) ==
    LET found == { d \in rem : /\ d.parent = under.NodeId
                                /\ d.Name = name
                                /\ (kind = AnyKind \/ d.Type = kind) }
    IN  IF under.NodeId = bad \/ found = { }
        THEN [ err |-> TRUE, node |-> NilNode ]
        ELSE [ err |-> FALSE, node |-> Handle(CHOOSE d \in found : TRUE) ]

\* folderCache.Put
Put(c, key, n) ==
    [ k \in DOMAIN c \cup { key } |-> IF k = key THEN n ELSE c[k] ]

RECURSIVE Get(_, _, _, _, _)
\* Drive.Get of the resolver: the parent folder comes from the cache, or is
\* resolved and put there; a name right under the root is looked up
\* without the cache
Get(c, rem, path, kind, bad) ==
    IF path = << >>
    THEN [ cache |-> c, err |-> FALSE, node |-> RootNode ]
    ELSE LET parent == SubSeq(path, 1, Len(path) - 1)
             name   == path[Len(path)]
         IN  IF parent = << >>
             THEN [ cache |-> c ] @@ findNameNode(rem, RootNode, name, kind, bad)
             ELSE IF parent \in DOMAIN c
             THEN [ cache |-> c ] @@ findNameNode(rem, c[parent], name, kind, bad)
             ELSE LET up == Get(c, rem, parent, FolderKind, bad)
                  IN  IF up.err
                      THEN up
                      ELSE [ cache |-> Put(up.cache, parent, up.node) ]
                           @@ findNameNode(rem, up.node, name, kind, bad)

\* checkRoot of the resolver
checkRootNode(n) ==
    IF n = NilNode THEN "empty node"
    ELSE IF n.NodeId = rootId THEN "can't operate on root "
    ELSE "nil"

\* mutant: the cache is never cleared
ClearsCache_Never(n) == FALSE

\* the test Rename, Move and Remove make before folderCache.Clear()
ClearsCache(n) == n.Type = FolderKind

RECURSIVE Below(_, _)
\* the nodes under node id, itself included
Below(rem, id) ==
    { id } \cup UNION { Below(rem \ { d }, d.NodeId) : d \in { d \in rem : d.parent = id } }

\* the service refuses a name that is taken in the folder
NameFree(rem, parent, name) ==
    \A d \in rem : ~(d.parent = parent /\ d.Name = name)

\* the nodes a caller may hand in: one the service holds, the root, or nil
NodeArgs == { Handle(d) : d \in remote } \cup { RootNode, NilNode }

InitCache ==
    /\ UploadIdle
    /\ FolderIdle
    /\ DigestIdle
    /\ OpIdle
    /\ ConcIdle
    /\ WalkIdle
    /\ folderCache = << >>
    /\ remote = InitialRemote
    /\ lastOp = NoOp
    /\ getting = NoGet

DoGet ==
    /\ lastOp.n < MaxOps
    /\ \E path \in CachePaths, kind \in { FolderKind, FileKind, AnyKind },
          bad \in { "" } \cup { d.NodeId : d \in remote } :
          LET r == Get(folderCache, remote, path, kind, bad)
          IN  /\ folderCache' = r.cache
              /\ lastOp' = [ NoOp EXCEPT !.op = "get", !.err = r.err,
                                         !.n = lastOp.n + 1,
                                         !.lost = lastOp.lost ]
    /\ UNCHANGED << remote, getting >>
    /\ UNCHANGED nonCacheVars

\* a mutation: checkRoot, one request, and the cache cleared after a
\* success on a folder.  The service applies `after` or refuses; a request
\* that was applied may still fail on its way back.
Mutate(op, n, precheck, allowed, after) ==
    /\ lastOp.n < MaxOps
    /\ \/ /\ precheck # "nil"
          /\ lastOp' = [ op |-> op, type |-> n.Type, err |-> TRUE,
                         had |-> folderCache # << >>, n |-> lastOp.n + 1,
                         lost |-> lastOp.lost ]
          /\ UNCHANGED << folderCache, remote >>
       \/ /\ precheck = "nil"
          /\ \E applied, err \in BOOLEAN :
                /\ applied => allowed
                /\ ~err => applied
                /\ remote' = IF applied THEN after ELSE remote
                /\ folderCache' = IF ~err /\ ClearsCache(n) THEN << >>
                                  ELSE folderCache
                /\ lastOp' = [ op |-> op, type |-> n.Type, err |-> err,
                               had |-> folderCache # << >>,
                               n |-> lastOp.n + 1,
                               lost |-> lastOp.lost \/ (applied /\ err) ]
    /\ UNCHANGED getting
    /\ UNCHANGED nonCacheVars

Rename ==
    \E n \in NodeArgs, newName \in CacheNames :
       LET held == { d \in remote : d.NodeId = n.NodeId }
       IN  Mutate("rename", n, checkRootNode(n),
                  \A d \in held : NameFree(remote, d.parent, newName),
                  { IF d \in held THEN [ d EXCEPT !.Name = newName ] ELSE d
                      : d \in remote })

MoveNode ==
    \E n \in NodeArgs, parent \in NodeArgs :
       LET held == { d \in remote : d.NodeId = n.NodeId }
       IN  Mutate("move", n,
                  IF checkRootNode(n) # "nil" THEN checkRootNode(n)
                  ELSE IF parent = NilNode THEN "parent node is empty"
                  ELSE "nil",
                  /\ parent.Type = FolderKind
                  /\ parent.NodeId \notin Below(remote, n.NodeId)
                  /\ NameFree(remote, parent.NodeId, n.Name),
                  { IF d \in held THEN [ d EXCEPT !.parent = parent.NodeId ]
                    ELSE d : d \in remote })

RemoveNode ==
    \E n \in NodeArgs :
       Mutate("remove", n, checkRootNode(n), TRUE,
              { d \in remote : d.NodeId \notin Below(remote, n.NodeId) })

\* what a step of a Get leaves in lastOp
GetOp(err) ==
    [ NoOp EXCEPT !.op = "get", !.err = err, !.n = lastOp.n,
                  !.lost = lastOp.lost ]

\* the longest proper prefix of path the cache holds, 0 if none: Get asks
\* the cache for the parent, then for the parent's parent, and so on
CachedLevel(c, path) ==
    LET hits == { j \in 1..(Len(path) - 1) : SubSeq(path, 1, j) \in DOMAIN c }
    IN  IF hits = { } THEN 0 ELSE CHOOSE j \in hits : \A k \in hits : k <= j

\* Get of a second goroutine up to its first listing: the root is returned
\* at once; otherwise the cache is asked for the parents
GetStart ==
    /\ getting.pc = "idle"
    /\ lastOp.n < MaxOps
    /\ \E path \in CachePaths, kind \in { FolderKind, FileKind, AnyKind } :
          /\ getting' =
                IF path = << >> THEN NoGet
                ELSE LET j == CachedLevel(folderCache, path)
                     IN  [ pc |-> "list", path |-> path, kind |-> kind,
                           level |-> j + 1,
                           node |-> IF j = 0 THEN RootNode
                                    ELSE folderCache[SubSeq(path, 1, j)] ]
          /\ lastOp' = [ GetOp(FALSE) EXCEPT !.n = lastOp.n + 1 ]
    /\ UNCHANGED << folderCache, remote >>
    /\ UNCHANGED nonCacheVars

\* findNameNode of that Get: one listing, which may fail
GetList ==
    /\ getting.pc = "list"
    /\ \E bad \in { "", getting.node.NodeId } :
          LET last == getting.level = Len(getting.path)
              r == findNameNode(remote, getting.node,
                                getting.path[getting.level],
                                IF last THEN getting.kind ELSE FolderKind,
                                bad)
          IN  /\ getting' = IF r.err \/ last THEN NoGet
                            ELSE [ getting EXCEPT !.pc = "put",
                                                  !.node = r.node ]
              /\ lastOp' = GetOp(r.err)
    /\ UNCHANGED << folderCache, remote >>
    /\ UNCHANGED nonCacheVars

\* drive.folderCache.Put(parent, node) of that Get
GetPut ==
    /\ getting.pc = "put"
    /\ folderCache' = Put(folderCache, SubSeq(getting.path, 1, getting.level),
                          getting.node)
    /\ getting' = [ getting EXCEPT !.pc = "list", !.level = @ + 1 ]
    /\ lastOp' = GetOp(FALSE)
    /\ UNCHANGED remote
    /\ UNCHANGED nonCacheVars

\* the id the service gives to the folder it creates: one folder is
\* created at a time
NewId == "c1"

\* createFolderInternal of the resolver for one name under a parent path:
\* Get of the folder, else Get of the parent and the create request
CreateFolderNode ==
    /\ lastOp.n < MaxOps
    /\ \A d \in remote : d.NodeId # NewId
    /\ \E path \in CachePaths \ { << >> } :
          LET parent == SubSeq(path, 1, Len(path) - 1)
              name   == path[Len(path)]
              have   == Get(folderCache, remote, path, FolderKind, "")
              up     == Get(have.cache, remote, parent, FolderKind, "")
              made   == [ NodeId |-> NewId,
                          parent |-> up.node.NodeId, Name |-> name,
                          Type |-> FolderKind ]
          IN  IF ~have.err
              THEN /\ folderCache' = have.cache
                   /\ remote' = remote
                   /\ lastOp' = [ GetOp(FALSE) EXCEPT !.op = "create",
                                                      !.n = lastOp.n + 1 ]
              ELSE IF up.err
              THEN /\ folderCache' = up.cache
                   /\ remote' = remote
                   /\ lastOp' = [ GetOp(TRUE) EXCEPT !.op = "create",
                                                     !.n = lastOp.n + 1 ]
              ELSE \E applied, err \in BOOLEAN :
                   /\ applied => NameFree(remote, up.node.NodeId, name)
                   /\ ~err => applied
                   /\ folderCache' = up.cache
                   /\ remote' = IF applied THEN remote \cup { made }
                                ELSE remote
                   /\ lastOp' = [ GetOp(err) EXCEPT !.op = "create",
                                                    !.n = lastOp.n + 1 ]
    /\ UNCHANGED getting
    /\ UNCHANGED nonCacheVars

NextCache ==
    \/ DoGet
    \/ Rename
    \/ MoveNode
    \/ RemoveNode

SpecCache == InitCache /\ [][NextCache]_vars

\* the resolver used by two goroutines: the Get of one runs step by step
\* while the other creates, renames, moves and removes
NextStale ==
    \/ GetStart
    \/ GetList
    \/ GetPut
    \/ CreateFolderNode
    \/ Rename
    \/ MoveNode
    \/ RemoveNode

SpecStale == InitCache /\ [][NextStale]_vars

Mutations == { "rename", "move", "remove" }


\* ------------------------------------- concurrent invocations on one Drive
\* Each invocation is CreateFileWithProof for a file of one part, with valid
\* arguments.  jsonRequest runs step by step: the fields of the Drive are
\* read and written without synchronization.
InvIds == { "i1", "i2" }

\* an access token, written with the expiry refreshToken stores with it
AccessToken(id, exp) == [ id |-> id, exp |-> exp ]

\* a string read while it is being written: pointer and length of
\* different values
Torn == AccessToken(-1, -1)

DriveFields == { "accessToken", "expireAt", "RefreshToken" }

\* the handshake responses of invocation i: the service names the file and
\* the session after the invocation
ConcResults(i) ==
    { r \in ProofResults : /\ r.FileId = (IF i = "i1" THEN "f1" ELSE "f2")
                           /\ r.UploadId = (IF i = "i1" THEN "u1" ELSE "u2")
                           /\ Len(r.PartInfoList) <= 1 }

ConcCall(kind, at, bearer, rt, res) ==
    [ kind |-> kind, at |-> at, bearer |-> bearer, rt |-> rt,
      file_id |-> res.FileId, upload_id |-> res.UploadId ]

NoToken == AccessToken(0, 0)

ThreadStart ==
    [ pc |-> "guard", req |-> "handshake", at |-> 0, stores |-> { },
      tk |-> [ accessToken |-> NoToken, expireAt |-> 0, RefreshToken |-> 0 ],
      calls |-> << >>, res |-> ZeroProofResult, ret |-> NoReturn ]

InitConc ==
    /\ NoUpload
    /\ drive = [ accessToken |-> AccessToken(1, 0), expireAt |-> 0,
                 RefreshToken |-> 1 ]
    /\ now = 0
    /\ FolderIdle
    /\ DigestIdle
    /\ OpIdle
    /\ CacheIdle
    /\ WalkIdle
    /\ \E active \in { { "i1" }, InvIds } :
          threads = [ i \in active |-> ThreadStart ]

Step(i, new) == threads' = [ threads EXCEPT ![i] = new ]

Finish(th, id, err) == [ th EXCEPT !.pc = "done", !.ret = Return(id, err) ]

\* jsonRequest: if drive.expireAt < time.Now().Unix()
Guard(i) ==
    LET th == threads[i]
    IN  /\ th.pc = "guard"
        /\ \E t \in Clock(now) :
              /\ now' = t
              /\ Step(i, [ th EXCEPT !.at = t,
                                     !.pc = IF TokenExpired(drive, t)
                                            THEN "refresh" ELSE "header" ])
        /\ UNCHANGED drive
        /\ UNCHANGED nonConcVars

\* refreshToken: the request is built from drive.config.RefreshToken and sent
RefreshSend(i) ==
    LET th == threads[i]
    IN  /\ th.pc = "refresh"
        /\ Step(i, [ th EXCEPT
                       !.pc = "refreshWait",
                       !.calls = Append(@, ConcCall("refresh", th.at, NoToken,
                                                    drive.RefreshToken,
                                                    ZeroProofResult)) ])
        /\ UNCHANGED << drive, now >>
        /\ UNCHANGED nonConcVars

\* refreshToken: the response is read and decoded; the three stores follow
RefreshRecv(i) ==
    LET th == threads[i]
        rt == th.calls[Len(th.calls)].rt
    IN  /\ th.pc = "refreshWait"
        /\ \/ /\ Step(i, Finish(th, "", "failed to post create file request"))
              /\ now' = now
           \/ \E t \in Clock(now) :
              \E tk \in TokenResponses([ RefreshToken |-> rt ]) :
                 /\ now' = t
                 /\ Step(i, [ th EXCEPT
                       !.pc = "store",
                       !.stores = DriveFields,
                       !.tk = [ accessToken |->
                                  AccessToken(tk.AccessToken, tk.ExpiresIn + t),
                                expireAt |-> tk.ExpiresIn + t,
                                RefreshToken |-> tk.RefreshToken ] ])
        /\ UNCHANGED drive
        /\ UNCHANGED nonConcVars

\* mutant: the stores reach the other invocations in program order
MayStore_InOrder(pending, f) ==
    \/ f = "accessToken"
    \/ f = "expireAt" /\ "accessToken" \notin pending
    \/ f = "RefreshToken" /\ pending = { "RefreshToken" }

\* the three stores of refreshToken are not synchronized: another
\* invocation may see them in any order
MayStore(pending, f) == f \in pending

\* drive.accessToken = ..., drive.expireAt = ..., drive.config.RefreshToken = ...
Store(i) ==
    LET th == threads[i]
    IN  /\ th.pc = "store"
        /\ \E f \in th.stores :
              /\ MayStore(th.stores, f)
              /\ drive' = [ drive EXCEPT ![f] = th.tk[f] ]
              /\ Step(i, [ th EXCEPT
                             !.stores = @ \ { f },
                             !.pc = IF th.stores = { f } THEN "header"
                                    ELSE "store" ])
        /\ now' = now
        /\ UNCHANGED nonConcVars

\* the values a read of drive.accessToken by invocation i may give: the
\* value stored last, or a torn one while another invocation is storing
ReadAccessToken(i) ==
    { drive.accessToken }
    \cup { Torn : j \in { j \in DOMAIN threads :
                             j # i /\ "accessToken" \in threads[j].stores } }

\* jsonRequest: the authorization header is built and the request sent
Header(i) ==
    LET th == threads[i]
    IN  /\ th.pc = "header"
        /\ \E bearer \in ReadAccessToken(i) :
              Step(i, [ th EXCEPT
                         !.pc = "wait",
                         !.calls = Append(@, ConcCall(th.req, th.at, bearer,
                                                      0, th.res)) ])
        /\ UNCHANGED << drive, now >>
        /\ UNCHANGED nonConcVars

\* jsonRequest returns and CreateFileWithProof goes on
Recv(i) ==
    LET th == threads[i]
    IN  /\ th.pc = "wait"
        /\ IF th.req = "handshake"
           THEN \/ Step(i, Finish(th, "", "failed to post create file request"))
                \/ \E r \in ConcResults(i) :
                      LET o == HandshakeOutcome(r)
                          got == [ th EXCEPT !.res = r ]
                      IN  Step(i, CASE o = "rapid" -> Finish(got, r.FileId, "nil")
                                    [] o = "exist" ->
                                         Finish(got, "", "ErrorAlreadyExisted")
                                    [] o = "protocol" ->
                                         Finish(got, "",
                                                "failed to extract uploadUrl")
                                    [] OTHER -> [ got EXCEPT !.pc = "put" ])
           ELSE \/ Step(i, Finish(th, "",
                                  "failed to post upload complete request"))
                \/ \E r \in CompleteResults :
                      Step(i, Finish(th, r.NodeId, "nil"))
        /\ UNCHANGED << drive, now >>
        /\ UNCHANGED nonConcVars

\* the PUT of the one part
PutPart(i) ==
    LET th == threads[i]
    IN  /\ th.pc = "put"
        /\ \E outcome \in PutOutcomes :
              LET sent == [ th EXCEPT
                            !.calls = Append(@, ConcCall("put", th.at, NoToken,
                                                         0, th.res)) ]
              IN  Step(i, IF PutFails(outcome)
                          THEN Finish(sent, "", "failed to upload file")
                          ELSE [ sent EXCEPT !.pc = "guard",
                                             !.req = "complete" ])
        /\ UNCHANGED << drive, now >>
        /\ UNCHANGED nonConcVars

NextConc ==
    \/ \E i \in DOMAIN threads : Guard(i)
    \/ \E i \in DOMAIN threads : RefreshSend(i)
    \/ \E i \in DOMAIN threads : RefreshRecv(i)
    \/ \E i \in DOMAIN threads : Store(i)
    \/ \E i \in DOMAIN threads : Header(i)
    \/ \E i \in DOMAIN threads : Recv(i)
    \/ \E i \in DOMAIN threads : PutPart(i)

SpecConc == InitConc /\ [][NextConc]_vars

\* the requests of invocation i that carry the bearer
MainCalls(i) ==
    { k \in DOMAIN threads[i].calls :
        threads[i].calls[k].kind \in { "handshake", "complete" } }

\* ------------------------------------------------------------ call log
Handshakes == { i \in DOMAIN calls : calls[i].kind = "handshake" }

Puts == { i \in DOMAIN calls : calls[i].kind = "put" }

Completes == { i \in DOMAIN calls : calls[i].kind = "complete" }

\* the handshake was answered and decoded
HandshakeOk == \E i \in Handshakes : calls[i].status = "ok"

\* the offsets of a span
Span(from, to) == from..(to - 1)

\* ---------------------------------------------------- folder creation
\* Callers of CreateFolderRecursively on one Drive.  A path is the sequence
\* of its components; << >> is "/".
FolderCallers == { "c1", "c2" }

FolderPaths == { << >>, << "a" >>, << "a", "b" >> }

\* drive.rootNode
rootNode == [ path |-> << >>, id |-> 0 ]

Exists(srv, p) == \E f \in srv : f.path = p

NodeAt(srv, p) == CHOOSE f \in srv : f.path = p

\* GetByPath as its caller sees it: the root without a remote call, else
\* the node the service holds at the path, os.ErrNotExist when it holds
\* none, or the error of a remote call that failed
GetByPath(srv, p) ==
    IF p = << >>
    THEN { [ kind |-> "found", id |-> rootNode.id ] }
    ELSE { [ kind |-> "error", id |-> 0 ] }
         \cup (IF Exists(srv, p)
               THEN { [ kind |-> "found", id |-> NodeAt(srv, p).id ] }
               ELSE { [ kind |-> "notexist", id |-> 0 ] })

\* the create request with check_name_mode "refuse" for the folder at
\* path p: it fails on the way (the service may or may not have acted on
\* it), or it is answered with the id of the folder the service now holds
\* at p, which is a new one only when it held none
PostCreate(srv, p) ==
    LET made == IF Exists(srv, p)
                THEN srv
                ELSE srv \cup { [ path |-> p, id |-> Cardinality(srv) ] }
    IN  { [ srv |-> srv, id |-> 0, err |-> TRUE ],
          [ srv |-> made, id |-> 0, err |-> TRUE ],
          [ srv |-> made, id |-> NodeAt(made, p).id, err |-> FALSE ] }

\* the folder the loop of CreateFolderRecursively is at: parent + "/" + name
Target(me) == SubSeq(me.path, 1, Min(me.i + 1, Len(me.path)))

\* parent
Parent(me) == SubSeq(me.path, 1, Min(me.i, Len(me.path)))

\* mutant: drive.mutex.Lock() does not wait
MutexFree_NoLock(m) == TRUE

\* drive.mutex.Lock() goes through when nobody holds the mutex
MutexFree(m) == m = "free"

InitFolder ==
    /\ UploadIdle
    /\ DigestIdle
    /\ OpIdle
    /\ CacheIdle
    /\ WalkIdle
    /\ ConcIdle
    /\ callers \in [ FolderCallers ->
          { [ pc |-> "lock", path |-> p, i |-> 0, chk |-> "none",
              parentId |-> 0, ret |-> NoReturn ] : p \in FolderPaths } ]
    /\ mutex = "free"
    /\ server \in { { rootNode }, { rootNode, [ path |-> << "a" >>, id |-> 1 ] } }
    /\ creates = << >>

\* createFolderInternal returns (the deferred Unlock runs) and the loop of
\* CreateFolderRecursively goes on to the next component or returns
Returned(c, id, err) ==
    LET me == callers[c]
    IN  /\ mutex' = "free"
        /\ callers' = [ callers EXCEPT ![c] =
              IF err # "nil" \/ me.i + 1 >= Len(me.path)
              THEN [ me EXCEPT !.pc = "done", !.ret = Return(id, err) ]
              ELSE [ me EXCEPT !.pc = "lock", !.i = me.i + 1,
                               !.chk = "none" ] ]

\* drive.mutex.Lock()
Lock(c) ==
    /\ callers[c].pc = "lock"
    /\ MutexFree(mutex)
    /\ mutex' = c
    /\ callers' = [ callers EXCEPT ![c].pc = "check" ]
    /\ UNCHANGED << server, creates >>
    /\ UNCHANGED nonFolderVars

\* node, err := drive.GetByPath(ctx, parent+"/"+name, FolderKind)
CheckExists(c) ==
    /\ callers[c].pc = "check"
    /\ \E r \in GetByPath(server, Target(callers[c])) :
          IF r.kind = "found"
          THEN Returned(c, r.id, "nil")
          ELSE /\ callers' = [ callers EXCEPT ![c].pc = "parent",
                                              ![c].chk = r.kind ]
               /\ mutex' = mutex
    /\ UNCHANGED << server, creates >>
    /\ UNCHANGED nonFolderVars

\* node, err = drive.GetByPath(ctx, parent, FolderKind)
ResolveParent(c) ==
    /\ callers[c].pc = "parent"
    /\ \E r \in GetByPath(server, Parent(callers[c])) :
          IF r.kind = "found"
          THEN /\ callers' = [ callers EXCEPT ![c].pc = "create",
                                              ![c].parentId = r.id ]
               /\ mutex' = mutex
          ELSE Returned(c, 0, "findNodeError")
    /\ UNCHANGED << server, creates >>
    /\ UNCHANGED nonFolderVars

\* err = drive.jsonRequest(ctx, "POST", apiCreate, &body, &result)
Create(c) ==
    /\ callers[c].pc = "create"
    /\ LET me == callers[c]
       IN  \E r \in PostCreate(server, Target(me)) :
           /\ server' = r.srv
           /\ creates' = Append(creates,
                 [ caller |-> c, parent |-> me.parentId,
                   name |-> me.path[me.i + 1], chk |-> me.chk,
                   existed |-> Exists(server, Target(me)),
                   err |-> r.err ])
           /\ IF r.err
              THEN Returned(c, 0, "failed to post create folder request")
              ELSE Returned(c, r.id, "nil")
    /\ UNCHANGED nonFolderVars

NextFolder ==
    \E c \in FolderCallers :
       \/ Lock(c)
       \/ CheckExists(c)
       \/ ResolveParent(c)
       \/ Create(c)

SpecFolder == InitFolder /\ [][NextFolder]_vars

\* callers between Lock and the return of createFolderInternal
InSection == { c \in FolderCallers : callers[c].pc \in { "check", "parent", "create" } }

\* ------------------------------------------------- the digest at work
\* the access token of TestCalcProofOffset, as bytes
TestToken ==
    << 101, 121, 74, 104, 98, 71, 99, 105, 79, 105, 74, 83, 85, 122, 73, 49,
       78, 105, 73, 115, 73, 110, 82, 53, 99, 67, 73, 54, 73, 107, 112, 88,
       86, 67, 74, 57, 46, 101, 121, 74, 49, 99, 50, 86, 121, 83, 87, 81,
       105, 79, 105, 73, 48, 77, 106, 81, 121, 78, 68, 73, 48, 77, 106, 81,
       121, 78, 68, 73, 48, 77, 106, 81, 121, 78, 68, 73, 48, 77, 106, 81,
       121, 78, 68, 73, 48, 77, 106, 81, 121, 78, 68, 73, 48, 77, 105, 73,
       115, 73, 109, 78, 49, 99, 51, 82, 118, 98, 85, 112, 122, 98, 50, 52,
       105, 79, 105, 74, 55, 88, 67, 74, 106, 98, 71, 108, 108, 98, 110, 82,
       74, 90, 70, 119, 105, 79, 108, 119, 105, 77, 106, 86, 107, 101, 108, 103,
       122, 100, 109, 74, 90, 99, 87, 116, 48, 86, 110, 104, 53, 87, 70, 119,
       105, 76, 70, 119, 105, 90, 71, 57, 116, 89, 87, 108, 117, 83, 87, 82,
       99, 73, 106, 112, 99, 73, 109, 74, 113, 77, 106, 108, 99, 73, 105, 120,
       99, 73, 110, 78, 106, 98, 51, 66, 108, 88, 67, 73, 54, 87, 49, 119,
       105, 82, 70, 74, 74, 86, 107, 85, 117, 81, 85, 120, 77, 88, 67, 73,
       115, 88, 67, 74, 84, 83, 69, 70, 83, 82, 83, 53, 66, 84, 69, 120,
       99, 73, 105, 120, 99, 73, 107, 90, 74, 84, 69, 85, 117, 81, 85, 120,
       77, 88, 67, 73, 115, 88, 67, 74, 86, 85, 48, 86, 83, 76, 107, 70,
       77, 84, 70, 119, 105, 76, 70, 119, 105, 85, 49, 82, 80, 85, 107, 70,
       72, 82, 83, 53, 66, 84, 69, 120, 99, 73, 105, 120, 99, 73, 108, 78,
       85, 84, 49, 74, 66, 82, 48, 86, 71, 83, 85, 120, 70, 76, 107, 120,
       74, 85, 49, 82, 99, 73, 105, 120, 99, 73, 107, 74, 66, 86, 69, 78,
       73, 88, 67, 73, 115, 88, 67, 74, 80, 81, 86, 86, 85, 83, 67, 53,
       66, 84, 69, 120, 99, 73, 105, 120, 99, 73, 107, 108, 78, 81, 85, 100,
       70, 76, 107, 70, 77, 84, 70, 119, 105, 76, 70, 119, 105, 83, 85, 53,
       87, 83, 86, 82, 70, 76, 107, 70, 77, 84, 70, 119, 105, 76, 70, 119,
       105, 81, 85, 78, 68, 84, 49, 86, 79, 86, 67, 53, 66, 84, 69, 120,
       99, 73, 108, 48, 115, 88, 67, 74, 121, 98, 50, 120, 108, 88, 67, 73,
       54, 88, 67, 74, 49, 99, 50, 86, 121, 88, 67, 73, 115, 88, 67, 74,
       121, 90, 87, 90, 99, 73, 106, 112, 99, 73, 109, 104, 48, 100, 72, 66,
       122, 79, 105, 56, 118, 100, 51, 100, 51, 76, 109, 70, 115, 97, 88, 108,
       49, 98, 109, 82, 121, 97, 88, 90, 108, 76, 109, 78, 118, 98, 83, 57,
       99, 73, 110, 48, 105, 76, 67, 74, 108, 101, 72, 65, 105, 79, 106, 69,
       50, 77, 106, 65, 120, 77, 106, 65, 121, 78, 122, 85, 115, 73, 109, 108,
       104, 100, 67, 73, 54, 77, 84, 89, 121, 77, 68, 69, 120, 77, 122, 65,
       120, 78, 88, 48, 75, 46, 65, 108, 77, 107, 54, 51, 81, 100, 89, 122,
       56, 112, 68, 120, 98, 121, 103, 55, 67, 111, 120, 122, 74, 95, 112, 77,
       104, 57, 116, 49, 82, 79, 57, 101, 54, 82, 105, 52, 121, 84, 76, 81,
       121, 68, 103, 104, 98, 112, 67, 117, 65, 120, 89, 52, 87, 52, 51, 82,
       72, 107, 83, 104, 121, 89, 100, 52, 77, 109, 69, 55, 120, 78, 121, 119,
       84, 52, 73, 68, 120, 65, 82, 75, 107, 67, 71, 107, 75, 113, 119, 67,
       68, 49, 65, 79, 100, 84, 82, 76, 116, 97, 95, 74, 86, 111, 115, 50,
       52, 50, 81, 80, 74, 98, 97, 69, 67, 49, 88, 69, 115, 50, 67, 100,
       119, 106, 109, 73, 68, 56, 117, 118, 52, 73, 105, 66, 49, 70, 109, 86,
       98, 51, 55, 95, 76, 86, 97, 86, 103, 45, 111, 85, 118, 103, 109, 57,
       52, 45, 122, 102, 100, 65, 111, 99, 111, 120, 107, 85, 66, 97, 118, 72,
       69 >>

\* messages with their MD5 digests: the test suite of RFC 1321 (A.5),
\* "abcdef" of TestG, and the token of TestCalcProofOffset
Md5Vectors ==
    {
      \* the empty string
      [ msg |-> << >>,
        md5 |-> << "d", "4", "1", "d", "8", "c", "d", "9", "8", "f", "0", "0", "b", "2", "0", "4", "e", "9", "8", "0", "0", "9", "9", "8", "e", "c", "f", "8", "4", "2", "7", "e" >> ],
      \* a
      [ msg |-> << 97 >>,
        md5 |-> << "0", "c", "c", "1", "7", "5", "b", "9", "c", "0", "f", "1", "b", "6", "a", "8", "3", "1", "c", "3", "9", "9", "e", "2", "6", "9", "7", "7", "2", "6", "6", "1" >> ],
      \* abc
      [ msg |-> << 97, 98, 99 >>,
        md5 |-> << "9", "0", "0", "1", "5", "0", "9", "8", "3", "c", "d", "2", "4", "f", "b", "0", "d", "6", "9", "6", "3", "f", "7", "d", "2", "8", "e", "1", "7", "f", "7", "2" >> ],
      \* abcdef
      [ msg |-> << 97, 98, 99, 100, 101, 102 >>,
        md5 |-> << "e", "8", "0", "b", "5", "0", "1", "7", "0", "9", "8", "9", "5", "0", "f", "c", "5", "8", "a", "a", "d", "8", "3", "c", "8", "c", "1", "4", "9", "7", "8", "e" >> ],
      \* message digest
      [ msg |-> << 109, 101, 115, 115, 97, 103, 101, 32, 100, 105, 103, 101, 115, 116 >>,
        md5 |-> << "f", "9", "6", "b", "6", "9", "7", "d", "7", "c", "b", "7", "9", "3", "8", "d", "5", "2", "5", "a", "2", "f", "3", "1", "a", "a", "f", "1", "6", "1", "d", "0" >> ],
      \* a..z
      [ msg |-> << 97, 98, 99, 100, 101, 102, 103, 104, 105, 106, 107, 108, 109, 110, 111, 112,
                   113, 114, 115, 116, 117, 118, 119, 120, 121, 122 >>,
        md5 |-> << "c", "3", "f", "c", "d", "3", "d", "7", "6", "1", "9", "2", "e", "4", "0", "0", "7", "d", "f", "b", "4", "9", "6", "c", "c", "a", "6", "7", "e", "1", "3", "b" >> ],
      \* A..Za..z0..9
      [ msg |-> << 65, 66, 67, 68, 69, 70, 71, 72, 73, 74, 75, 76, 77, 78, 79, 80,
                   81, 82, 83, 84, 85, 86, 87, 88, 89, 90, 97, 98, 99, 100, 101, 102,
                   103, 104, 105, 106, 107, 108, 109, 110, 111, 112, 113, 114, 115, 116, 117, 118,
                   119, 120, 121, 122, 48, 49, 50, 51, 52, 53, 54, 55, 56, 57 >>,
        md5 |-> << "d", "1", "7", "4", "a", "b", "9", "8", "d", "2", "7", "7", "d", "9", "f", "5", "a", "5", "6", "1", "1", "c", "2", "c", "9", "f", "4", "1", "9", "d", "9", "f" >> ],
      \* eight times 1234567890
      [ msg |-> << 49, 50, 51, 52, 53, 54, 55, 56, 57, 48, 49, 50, 51, 52, 53, 54,
                   55, 56, 57, 48, 49, 50, 51, 52, 53, 54, 55, 56, 57, 48, 49, 50,
                   51, 52, 53, 54, 55, 56, 57, 48, 49, 50, 51, 52, 53, 54, 55, 56,
                   57, 48, 49, 50, 51, 52, 53, 54, 55, 56, 57, 48, 49, 50, 51, 52,
                   53, 54, 55, 56, 57, 48, 49, 50, 51, 52, 53, 54, 55, 56, 57, 48 >>,
        md5 |-> << "5", "7", "e", "d", "f", "4", "a", "2", "2", "b", "e", "3", "c", "9", "5", "5", "a", "c", "4", "9", "d", "a", "2", "e", "2", "1", "0", "7", "b", "6", "7", "a" >> ],
      \* the access token of TestCalcProofOffset
      [ msg |-> TestToken,
        md5 |-> << "f", "8", "8", "5", "7", "a", "7", "5", "6", "a", "9", "4", "4", "1", "8", "7", "1", "3", "a", "6", "9", "2", "6", "0", "1", "b", "0", "3", "f", "1", "2", "0" >> ] }

\* values of fileSize handed to CalcProofOffset
DigestFileSizes == { 0, 1, 2, 1000, 1477419708, 2147483647 }

InitDigest ==
    /\ UploadIdle
    /\ FolderIdle
    /\ OpIdle
    /\ CacheIdle
    /\ WalkIdle
    /\ ConcIdle
    /\ \E v \in Md5Vectors :
          md = [ phase |-> "H", msg |-> v.msg, n |-> << >>, e |-> 0, k |-> 0,
                 regs |-> << 0, 0, 0, 0 >>, saved |-> << 0, 0, 0, 0 >> ]
    /\ dout = NoDigest

\* H calls P(D(n), 8 * len(n)): P up to its loop
PBegin ==
    /\ md.phase = "H"
    /\ md' = [ md EXCEPT !.phase = "loop",
                         !.n = Pad(D(md.msg), 8 * Len(md.msg)),
                         !.e = 0,
                         !.regs = << 1732584193, -271733879,
                                     -1732584194, 271733878 >> ]
    /\ UNCHANGED dout
    /\ UNCHANGED nonDigestVars

\* for e := 0; e < len(n)-1; e += 16, and a, r, o, p = u, d, f, m
PLoop ==
    /\ md.phase = "loop"
    /\ md' = IF md.e < Len(md.n) - 1
             THEN [ md EXCEPT !.phase = "body", !.k = 1, !.saved = md.regs ]
             ELSE [ md EXCEPT !.phase = "U" ]
    /\ UNCHANGED dout
    /\ UNCHANGED nonDigestVars

\* assignment k of the loop body
PAssign ==
    /\ md.phase = "body"
    /\ md.k <= 64
    /\ LET st == PSteps[md.k]
           x  == md.n[md.e + st.x + 1]
           u  == md.regs[1]
           d  == md.regs[2]
           f  == md.regs[3]
           m  == md.regs[4]
       IN  md' = [ md EXCEPT
                 !.k = md.k + 1,
                 !.regs =
                    CASE md.k % 4 = 1 -> << PStep(<< u, d, f, m >>, st, x), d, f, m >>
                      [] md.k % 4 = 2 -> << u, d, f, PStep(<< m, u, d, f >>, st, x) >>
                      [] md.k % 4 = 3 -> << u, d, PStep(<< f, m, u, d >>, st, x), m >>
                      [] md.k % 4 = 0 -> << u, PStep(<< d, f, m, u >>, st, x), f, m >> ]
    /\ UNCHANGED dout
    /\ UNCHANGED nonDigestVars

\* u = I(u, a); d = I(d, r); f = I(f, o); m = I(m, p), and e += 16
PBlockEnd ==
    /\ md.phase = "body"
    /\ md.k = 65
    /\ md' = [ md EXCEPT !.phase = "loop",
                         !.e = md.e + 16,
                         !.regs = [ j \in 1..4 |-> I(md.regs[j], md.saved[j]) ] ]
    /\ UNCHANGED dout
    /\ UNCHANGED nonDigestVars

\* P returns u, d, f, m; H returns U of them and G returns F of that
GReturn ==
    /\ md.phase = "U"
    /\ md' = [ md EXCEPT !.phase = "G" ]
    /\ dout' = [ dout EXCEPT !.hex = F(U(md.regs)) ]
    /\ UNCHANGED nonDigestVars

\* CalcProofOffset(accessToken, fileSize) after its call of G
DoCalcProofOffset ==
    /\ md.phase = "G"
    /\ md' = [ md EXCEPT !.phase = "done" ]
    /\ \E fileSize \in DigestFileSizes :
          dout' = [ dout EXCEPT
                      !.fileSize = fileSize,
                      !.offset = CalcProofOffset(HashPrefix(dout.hex), fileSize) ]
    /\ UNCHANGED nonDigestVars

NextDigest ==
    \/ PBegin
    \/ PLoop
    \/ PAssign
    \/ PBlockEnd
    \/ GReturn
    \/ DoCalcProofOffset

SpecDigest == InitDigest /\ [][NextDigest]_vars

\* the first eight bytes of the digest, taken from the registers u and d
DigestBytes8 ==
    [ j \in 1..8 |->
        And(UShr(md.regs[IF j <= 4 THEN 1 ELSE 2], 8 * ((j - 1) % 4)), 255) ]

\* ---------------------------------------------------------------- claims

\* C1: when the handshake response has rapid_upload = true, the call
\* returns the server-assigned file id at once, and no part PUT and no
\* complete request is ever issued.
C1_RapidUploadShortCircuits ==
    (HandshakeOk /\ proofResult.RapidUpload) =>
        /\ pc = "done"
        /\ ret = Return(proofResult.FileId, "nil")
        /\ Puts = { }
        /\ Completes = { }

\* a rapid match was answered, with a part list in the same response
C1_Witness ==
    /\ HandshakeOk
    /\ proofResult.RapidUpload
    /\ Len(proofResult.PartInfoList) > 0
    /\ ret.id \in FileIds

\* C2: when the handshake response says exist = true without a rapid
\* match, the call returns ErrorAlreadyExisted and issues no part PUT and no
\* complete request.
C2_ExistReturnsAlreadyExisted ==
    (HandshakeOk /\ ~proofResult.RapidUpload /\ proofResult.Exist) =>
        /\ pc = "done"
        /\ ret = Return("", "ErrorAlreadyExisted")
        /\ Puts = { }
        /\ Completes = { }

\* exist was answered, with a part list in the same response
C2_Witness ==
    /\ HandshakeOk
    /\ ~proofResult.RapidUpload
    /\ proofResult.Exist
    /\ Len(proofResult.PartInfoList) > 0
    /\ ret.err = "ErrorAlreadyExisted"

\* C3: if a part PUT fails at transport level or is answered with a
\* non-2xx status, the upload fails: no complete request is sent and the
\* call returns an error.
C3_FailedPutIsFatal ==
    (\E i \in Puts : calls[i].status \in { "error", "rejected" }) =>
        /\ Completes = { }
        /\ pc = "done" => ret.err # "nil"

\* C4: the complete request is sent only after every part of the
\* handshake's part list has been accepted, at most once, and carries the
\* file_id and upload_id of the handshake response.
C4_CompleteAfterAllPartsAccepted ==
    /\ Cardinality(Completes) <= 1
    /\ \A i \in Completes :
          /\ calls[i].file_id = proofResult.FileId
          /\ calls[i].upload_id = proofResult.UploadId
          /\ \A k \in DOMAIN proofResult.PartInfoList :
                \E j \in Puts :
                   /\ j < i
                   /\ calls[j].part = proofResult.PartInfoList[k].PartNumber
                   /\ calls[j].status = "ok"

C6_PartBodyIsItsSpan ==
    inKind # "pipe" =>
        \A i \in Puts :
           /\ calls[i].to - calls[i].from <= MaxPartSize
           /\ Span(calls[i].from, calls[i].to)
                = Span((calls[i].part - 1) * MaxPartSize,
                       Min(calls[i].part * MaxPartSize, node.Size))

\* C7: given a seekable file, the read cursor is at 0 when CreateFile or
\* CreateFileWithProof returns, whatever the exit path.
C7_CursorAtZeroOnReturn ==
    (pc = "done" /\ inKind = "file") => cursor = 0

\* C8: after CalcSha1 returns and after calcProof returns, on every exit
\* path, the read position of a regular file is 0.
C8_ProofLeavesCursorAtZero ==
    (entry = "CreateFile" /\ inKind = "file"
        /\ pc \in { "CalcProof", "CreateFileWithProof" }) => cursor = 0

\* C9: a file of size 0 is a legal input: no call divides by zero.
C9_ZeroSizeDoesNotPanic ==
    node.Size = 0 => pc # "panic"

\* C10: the part plan sent in the handshake is never empty; for size 0 it
\* is the single placeholder part number 1.
C10_PlanNeverEmpty ==
    \A i \in Handshakes :
       /\ Len(calls[i].plan) >= 1
       /\ node.Size = 0 => calls[i].plan = << [ PartNumber |-> 1 ] >>

\* C11: for every size > 0 the plan sent in the handshake has exactly
\* ceil(size / MaxPartSize) parts, numbered 1..n without a gap; a size that
\* is a multiple of MaxPartSize gets no short trailing part, and one byte
\* more gets exactly one part more.
C11_PlanIsCeiling ==
    \A i \in Handshakes :
       node.Size > 0 =>
          /\ calls[i].plan
                = PartList((node.Size + MaxPartSize - 1) \div MaxPartSize)
          /\ node.Size % MaxPartSize = 0
                => Len(calls[i].plan) = node.Size \div MaxPartSize
          /\ node.Size % MaxPartSize = 1
                => Len(calls[i].plan) = ((node.Size - 1) \div MaxPartSize) + 1

\* a handshake went out for a file one byte longer than a full part
C11_Witness ==
    /\ node.Size = MaxPartSize + 1
    /\ \E i \in Handshakes : Len(calls[i].plan) = 2

\* C12: a handshake answered without rapid_upload and without exist but
\* with an empty part list ends the upload with an error: the handshake is
\* not sent again, and no part PUT and no complete request is issued.
C12_EmptyPartListIsFatal ==
    (HandshakeOk /\ ~proofResult.RapidUpload /\ ~proofResult.Exist
        /\ proofResult.PartInfoList = << >>) =>
        /\ pc = "done"
        /\ ret = Return("", "failed to extract uploadUrl")
        /\ Cardinality(Handshakes) = 1
        /\ Puts = { }
        /\ Completes = { }

\* the handshake of a file that needs parts was answered with none
C12_Witness ==
    /\ HandshakeOk
    /\ ~proofResult.RapidUpload
    /\ ~proofResult.Exist
    /\ proofResult.PartInfoList = << >>
    /\ node.Size > 0
    /\ ret.err = "failed to extract uploadUrl"

\* C13: a call rejected because its bearer is expired or invalid is
\* followed by a token refresh and, when the refresh succeeds, by exactly one
\* retry of the call; a failed refresh or a second rejection ends the call
\* with the error.
C13_RejectedCallIsRefreshedAndRetriedOnce ==
    \A i \in DOMAIN calls :
       (pc = "done" /\ calls[i].kind \in { "handshake", "complete" }
           /\ calls[i].status = "unauthorized") =>
          \/ \* the rejected call was itself the one retry
             /\ i > 2
             /\ calls[i - 1].kind = "refresh"
             /\ calls[i - 2].kind = calls[i].kind
             /\ calls[i - 2].status = "unauthorized"
          \/ \* or a refresh follows and, if granted, one retry
             /\ i + 1 \in DOMAIN calls
             /\ calls[i + 1].kind = "refresh"
             /\ calls[i + 1].status = "ok"
                   => /\ i + 2 \in DOMAIN calls
                      /\ calls[i + 2].kind = calls[i].kind

\* C14 as stated: for one (parent, name) at most one create request is ever
\* issued, and callers of the same path return the same node id.
C14_AtMostOneCreateRequest ==
    /\ \A i, j \in DOMAIN creates :
          (creates[i].parent = creates[j].parent
              /\ creates[i].name = creates[j].name) => i = j
    /\ \A c, d \in FolderCallers :
          (callers[c].pc = "done" /\ callers[d].pc = "done"
              /\ callers[c].path = callers[d].path
              /\ callers[c].ret.err = "nil" /\ callers[d].ret.err = "nil")
          => callers[c].ret.id = callers[d].ret.id

\* C14 (amended): callers of CreateFolderRecursively are serialized around
\* check-then-create: at most one caller at a time is between Lock and the
\* return of createFolderInternal, and it holds the mutex; a create request
\* is issued only for a folder the service does not hold at that moment,
\* unless the caller's existence check failed with an error; callers that
\* return without error for the same path return the same node id.
C14_CheckThenCreateSerialized ==
    /\ Cardinality(InSection) <= 1
    /\ \A c \in InSection : mutex = c
    /\ \A i \in DOMAIN creates :
          creates[i].existed => creates[i].chk = "error"
    /\ \A c, d \in FolderCallers :
          (callers[c].pc = "done" /\ callers[d].pc = "done"
              /\ callers[c].path = callers[d].path
              /\ callers[c].ret.err = "nil" /\ callers[d].ret.err = "nil")
          => callers[c].ret.id = callers[d].ret.id

\* two callers of the same absent path: one created the folder, the other
\* found it in its existence check, and both returned its id
C14_Witness ==
    /\ callers["c1"].path = << "a" >>
    /\ callers["c2"].path = << "a" >>
    /\ callers["c1"].pc = "done"
    /\ callers["c2"].pc = "done"
    /\ Len(creates) = 1
    /\ ~creates[1].existed
    /\ callers["c1"].ret.err = "nil"
    /\ callers["c1"].ret = callers["c2"].ret

\* C15: for every ASCII string s, the empty string included, G(s) is the
\* MD5 digest of s written as 32 lowercase hexadecimal digits; G("abcdef")
\* is e80b5017098950fc58aad83c8c14978e.
C15_GIsMd5 ==
    md.phase \in { "G", "done" } =>
        /\ Len(dout.hex) = 32
        /\ \E v \in Md5Vectors : v.msg = md.msg /\ v.md5 = dout.hex

\* G("abcdef") has been computed
C15_Witness ==
    /\ md.phase = "G"
    /\ md.msg = << 97, 98, 99, 100, 101, 102 >>
    /\ dout.hex = << "e", "8", "0", "b", "5", "0", "1", "7", "0", "9", "8",
                     "9", "5", "0", "f", "c", "5", "8", "a", "a", "d", "8",
                     "3", "c", "8", "c", "1", "4", "9", "7", "8", "e" >>

C17_ProofEncodesBytesRead ==
    (proofCode.set /\ node.Size - proofCode.off < ProofBufLen) =>
        /\ proofCode.nread = node.Size - proofCode.off
        /\ proofCode.code =
              EncodeToString([ i \in 1..proofCode.nread |->
                                 FileByte(proofCode.off + i - 1) ])

C19_MutationClearsCache ==
    (lastOp.op \in Mutations /\ ~lastOp.err) => folderCache = << >>

\* C19 as the code has it: a successful Rename, Move or Remove of a folder
\* node leaves the cache without any entry; one of a node of any other
\* type, and a failed one, leaves the cache as it was.
C19_FolderMutationClearsCache ==
    [][ lastOp'.op \in Mutations =>
          folderCache' = IF ~lastOp'.err /\ lastOp'.type = FolderKind
                         THEN << >>
                         ELSE folderCache ]_vars

\* a folder was renamed while the cache held an entry
C19_Witness ==
    /\ lastOp.op = "rename"
    /\ ~lastOp.err
    /\ lastOp.type = FolderKind
    /\ lastOp.had
    /\ folderCache = << >>

\* C20: concurrent CreateFileWithProof invocations for different files on
\* one Drive are independent and need no lock: under every interleaving an
\* invocation issues the calls it issues alone (the handshake, its part,
\* the finalize with its own file_id and upload_id).  Alone, every
\* handshake and finalize carries the access token jsonRequest has just
\* found unexpired or has just obtained.
C20_InvocationsIndependent ==
    \A i \in DOMAIN threads :
       /\ \A k \in MainCalls(i) :
             LET c == threads[i].calls[k]
             IN  /\ c.bearer # Torn
                 /\ c.bearer.exp >= c.at
       /\ \A k \in DOMAIN threads[i].calls :
             threads[i].calls[k].kind \in { "put", "complete" } =>
                /\ threads[i].calls[k].file_id = threads[i].res.FileId
                /\ threads[i].calls[k].upload_id = threads[i].res.UploadId
                /\ threads[i].res \in ConcResults(i)

\* the largest and the smallest int32
MaxInt32 == 2147483647
MinInt32 == (-2147483647) - 1

\* (n + t) mod 2^32 read as an int32, computed within 32 bits: 2^32 is
\* taken off or added on when the sum leaves the range
WrapAdd(n, t) ==
    IF n >= 0 /\ t >= 0 /\ n > MaxInt32 - t
    THEN (n + MinInt32) + (t + MinInt32)
    ELSE IF n < 0 /\ t < 0 /\ n < MinInt32 - t
    THEN (n - MinInt32) + (t - MinInt32)
    ELSE n + t

\* the sum of n and t is outside the int32 range
Overflows(n, t) ==
    \/ n >= 0 /\ t >= 0 /\ n > MaxInt32 - t
    \/ n < 0 /\ t < 0 /\ n < MinInt32 - t

\* the words I is tried on: the registers of P and the values P saved at
\* the head of the block, the ends of the range, and the words of TestI
WordsAtHand ==
    { md.regs[j] : j \in 1..4 } \cup { md.saved[j] : j \in 1..4 }
    \cup { 0, 1, -1, MaxInt32, MinInt32, -1483587690, -887361707 }

\* C21: I(n, t) is addition modulo 2^32: for all 32-bit words n and t it is
\* (n + t) mod 2^32 read as an int32, overflow wrapping silently;
\* I(-1483587690, -887361707) = 1924017899.
C21_IIsWraparoundAddition ==
    /\ \A n, t \in WordsAtHand : I(n, t) = WrapAdd(n, t)
    /\ I(-1483587690, -887361707) = 1924017899

\* P adds the saved registers to the new ones and a sum wraps around
C21_Witness ==
    /\ md.phase = "body"
    /\ md.k = 65
    /\ \E j \in 1..4 :
          /\ Overflows(md.regs[j], md.saved[j])
          /\ I(md.regs[j], md.saved[j]) = WrapAdd(md.regs[j], md.saved[j])

\* C22: every handshake response, whatever its rapid_upload, exist and part
\* list, leads to exactly one of RapidMatch, AlreadyExists, PartsPending and
\* protocol error, and the response alone decides which; after RapidMatch
\* and AlreadyExists (and the protocol error) the handshake is the last
\* remote call of the invocation.
C22_HandshakeOutcomesExclusive ==
    HandshakeOk =>
        LET last     == calls[Len(calls)].kind = "handshake"
            ended    == pc = "done" /\ last
            rapid    == ended /\ ret = Return(proofResult.FileId, "nil")
            exist    == ended /\ ret = Return("", "ErrorAlreadyExisted")
            protocol == ended /\ ret = Return("", "failed to extract uploadUrl")
            pending  == \/ pc \in { "put", "putwait", "complete" }
                        \/ ~last
                        \/ ret = Return("", "failed to create upload request")
        IN  /\ Cardinality({ o \in { << 1, rapid >>, << 2, exist >>,
                                      << 3, protocol >>, << 4, pending >> }
                               : o[2] }) = 1
            /\ rapid <=> proofResult.RapidUpload
            /\ exist <=> (~proofResult.RapidUpload /\ proofResult.Exist)
            /\ protocol <=> /\ ~proofResult.RapidUpload
                            /\ ~proofResult.Exist
                            /\ proofResult.PartInfoList = << >>
            /\ pending <=> /\ ~proofResult.RapidUpload
                           /\ ~proofResult.Exist
                           /\ proofResult.PartInfoList # << >>

\* a response with both flags set was taken as a rapid match
C22_Witness ==
    /\ HandshakeOk
    /\ proofResult.RapidUpload
    /\ proofResult.Exist
    /\ pc = "done"
    /\ ret = Return(proofResult.FileId, "nil")
    /\ calls[Len(calls)].kind = "handshake"

\* C23: one invocation sends at most one handshake request (exactly one
\* once it is past the handshake), and a failed handshake, part PUT or
\* complete request is the last remote call of the invocation, which then
\* returns an error: nothing is retried.
C23_FailedIsAbsorbing ==
    /\ Cardinality(Handshakes) <= 1
    /\ pc \in { "put", "putwait", "complete" } => Cardinality(Handshakes) = 1
    /\ \A i \in Handshakes \cup Puts \cup Completes :
          calls[i].status \notin { "ok", "inflight" } =>
             /\ i = Len(calls)
             /\ pc = "done"
             /\ ret.err # "nil"

\* C24: jsonRequest (the handshake and the complete request) first calls
\* the token endpoint exactly when expireAt < now; when that refresh fails
\* (no answer, an unreadable answer, a refusal) the main request is not sent
\* and the invocation ends with an error; when it succeeds the main request
\* carries the access token just obtained and expireAt is now + expires_in.
C24_LazyRefresh ==
    [][ LET new == SubSeq(calls', Len(calls) + 1, Len(calls'))
        IN  (new # << >> /\ new[1].kind # "put") =>
              /\ (new[1].kind = "refresh") <=> (drive.expireAt < now')
              /\ (new[1].kind = "refresh" /\ new[1].status # "ok") =>
                    /\ Len(new) = 1
                    /\ pc' = "done"
                    /\ ret'.err # "nil"
              /\ (new[1].kind = "refresh" /\ new[1].status = "ok") =>
                    /\ Len(new) = 2
                    /\ new[2].kind \in { "handshake", "complete" }
                    /\ new[2].bearer = drive'.accessToken
                    /\ drive'.accessToken # drive.accessToken
                    /\ \E e \in ExpiresIns : drive'.expireAt = now' + e
      ]_vars

\* bytes of the bodies of the PUTs among the first k calls
RECURSIVE BytesPut(_)
BytesPut(k) ==
    IF k = 0 THEN 0
    ELSE BytesPut(k - 1)
         + (IF calls[k].kind = "put" THEN calls[k].to - calls[k].from ELSE 0)

\* C27: when the complete request is sent for a non-empty file all of
\* whose PUTs were accepted, as many parts were PUT as makePartInfoList
\* planned for the size and their bodies add up to the size: a handshake
\* response listing fewer parts than planned does not get a truncated upload
\* completed.
C27_CompleteOnlyForWholeFile ==
    \A i \in Completes :
       (node.Size > 0 /\ \A j \in Puts : calls[j].status = "ok") =>
          /\ Cardinality({ j \in Puts : j < i })
                = Len(makePartInfoList(node.Size))
          /\ BytesPut(i) = node.Size

\* the refresh requests of invocation i
RefreshCalls(i) ==
    { k \in DOMAIN threads[i].calls : threads[i].calls[k].kind = "refresh" }

\* C28: when invocations run jsonRequest concurrently on one Drive whose
\* token has expired, one refresh request is issued at most, no refresh
\* token is submitted twice, and every handshake and complete request
\* carries a whole, unexpired access token.
C28_OneRefreshNoTornToken ==
    /\ \A i, j \in DOMAIN threads :
          \A k \in RefreshCalls(i) : \A l \in RefreshCalls(j) :
             << i, k >> = << j, l >>
    /\ \A i, j \in DOMAIN threads :
          \A k \in RefreshCalls(i) : \A l \in RefreshCalls(j) :
             << i, k >> # << j, l >>
                => threads[i].calls[k].rt # threads[j].calls[l].rt
    /\ \A i \in DOMAIN threads : \A k \in MainCalls(i) :
          /\ threads[i].calls[k].bearer # Torn
          /\ threads[i].calls[k].bearer.exp >= threads[i].calls[k].at

RECURSIVE FolderAt(_, _)
\* the folder the service holds at a path, NilNode if there is none
FolderAt(rem, path) ==
    IF path = << >> THEN RootNode
    ELSE LET up == FolderAt(rem, SubSeq(path, 1, Len(path) - 1))
             found == { d \in rem : /\ d.parent = up.NodeId
                                      /\ d.Name = path[Len(path)]
                                      /\ d.Type = FolderKind }
         IN  IF up = NilNode \/ found = { } THEN NilNode
             ELSE Handle(CHOOSE d \in found : TRUE)

\* C25: the folder cache is never stale.  After any interleaving of Get,
\* CreateFolder, Rename, Move and Remove through one Drive in which no
\* response of the service was lost, every cache entry maps its path to
\* the folder the service holds at that path.
C25_CacheNeverStale ==
    ~lastOp.lost =>
        \A p \in DOMAIN folderCache : folderCache[p] = FolderAt(remote, p)

\* ------------------------------------------- walking a path, step by step
\* CreateFolderRecursively, GetByPath and ListAll of one caller.  Paths are
\* strings, written as sequences of characters; every call is a frame on
\* walk.stack and every request is written to walk.calls.
Slash == "/"

\* the paths handed in
WalkPaths ==
    { << >>, << "/" >>, << "/", "/" >>, << "a" >>, << "/", "a" >>,
      << "/", "a", "/" >>, << "a", "/", "b" >>, << "/", "a", "/", "b" >>,
      << "/", "a", "/", "f" >>, << "/", "a", "/", "/", "b" >> }

\* the trees the service starts with: empty, or the folder /a with the
\* files /a/f and /a/g and the folder /a/b
WalkTrees ==
    { { },
      { [ NodeId |-> "n1", parent |-> rootId, Name |-> << "a" >>,
          Type |-> FolderKind ],
        [ NodeId |-> "n2", parent |-> "n1", Name |-> << "f" >>,
          Type |-> FileKind ],
        [ NodeId |-> "n3", parent |-> "n1", Name |-> << "b" >>,
          Type |-> FolderKind ],
        [ NodeId |-> "n4", parent |-> "n1", Name |-> << "g" >>,
          Type |-> FileKind ] } }

\* "limit" of a list request, scaled down from 200
ListLimit == 1

\* the ids the service gives to the folders it creates, in turn
WalkNewIds == << "c1", "c2", "c3", "c4" >>

\* Go's s[from:to]
Slice(s, from, to) == SubSeq(s, from + 1, to)

\* strings.Index(s, "/")
IndexSlash(s) ==
    LET at == { k \in 1..Len(s) : s[k] = Slash }
    IN  IF at = { } THEN -1
        ELSE (CHOOSE k \in at : \A l \in at : k <= l) - 1

\* strings.LastIndex(s, "/")
LastIndexSlash(s) ==
    LET at == { k \in 1..Len(s) : s[k] = Slash }
    IN  IF at = { } THEN -1
        ELSE (CHOOSE k \in at : \A l \in at : l <= k) - 1

\* path must start with "/" and must not end with "/"
normalizePath(s) ==
    LET t == IF Len(s) >= 1 /\ s[1] = Slash THEN s ELSE << Slash >> \o s
    IN  IF Len(t) > 1 /\ t[Len(t)] = Slash THEN Slice(t, 0, Len(t) - 1) ELSE t

\* path.Split: the directory keeps its final slash
PathSplit(s) ==
    LET i == LastIndexSlash(s)
    IN  [ dir |-> Slice(s, 0, i + 1), file |-> Slice(s, i + 1, Len(s)) ]

\* drive.rootNode and the nil *Node
WalkRoot == [ NodeId |-> rootId, Name |-> << >>, Type |-> FolderKind ]
WalkNil == [ NodeId |-> "", Name |-> << >>, Type |-> "" ]

WalkHandle(d) == [ NodeId |-> d.NodeId, Name |-> d.Name, Type |-> d.Type ]

RECURSIVE HeldAt(_, _)
\* the nodes the service holds at a file_path: none when a name on the way
\* is missing or empty
HeldAt(tree, s) ==
    IF Len(s) <= 1 THEN { WalkRoot }
    ELSE LET sp == PathSplit(s)
             ups == HeldAt(tree, normalizePath(sp.dir))
         IN  { WalkHandle(d) : d \in { d \in tree :
                   /\ sp.file # << >>
                   /\ d.Name = sp.file
                   /\ \E up \in ups : d.parent = up.NodeId } }

\* the answers to get_by_path: a failure, 404 (also for a path the service
\* holds but does not find, such as one with blanks around a name), or the
\* node held
ByPathAnswers(tree, s) ==
    { [ status |-> "error", node |-> WalkNil ],
      [ status |-> "404", node |-> WalkNil ] }
    \cup { [ status |-> "ok", node |-> n ] : n \in HeldAt(tree, s) }

\* the children of a folder in the order the service lists them
Listing(tree, under) ==
    LET kids == { WalkHandle(d) : d \in { d \in tree : d.parent = under } }
    IN  CHOOSE q \in [ 1..Cardinality(kids) -> kids ] :
           \A a, b \in 1..Cardinality(kids) : q[a] = q[b] => a = b

\* the answers to a list request: a failure, or the page after the marker
\* (0 is the empty marker) with the marker of the next page
PageAnswers(tree, under, marker) ==
    LET all == Listing(tree, under)
        to  == Min(marker + ListLimit, Len(all))
    IN  { [ status |-> "error", items |-> << >>, next |-> 0 ],
          [ status |-> "ok", items |-> SubSeq(all, marker + 1, to),
            next |-> IF to < Len(all) THEN to ELSE 0 ] }

\* a request as the service saw it, with its answer
WalkCall(api, path, kind, under, marker, name, status, nd, items, next) ==
    [ api |-> api, path |-> path, kind |-> kind, under |-> under,
      marker |-> marker, name |-> name, status |-> status, node |-> nd,
      items |-> items, next |-> next ]

\* a call of the Drive under way
Frame(fn, at, path, kind, under) ==
    [ fn |-> fn, pc |-> at, path |-> path, kind |-> kind, under |-> under,
      i |-> 0, j |-> 0, parent |-> << >>, name |-> << >>, fresh |-> TRUE,
      marker |-> 0, nodes |-> << >> ]

\* what a call hands back to its caller
Result(err, nd, nodes) == [ err |-> err, node |-> nd, nodes |-> nodes ]

NoResult == Result("running", WalkNil, << >>)

WalkEntries ==
    { [ entry |-> "CreateFolderRecursively", path |-> p, kind |-> FolderKind,
        under |-> "" ] : p \in WalkPaths }
    \cup { [ entry |-> "GetByPath", path |-> p, kind |-> k, under |-> "" ]
             : p \in WalkPaths, k \in { FolderKind, FileKind, AnyKind } }
    \cup { [ entry |-> "ListAll", path |-> << >>, kind |-> "", under |-> u ]
             : u \in { rootId, "n1", "n3" } }

\* the frame a call starts with: normalizePath is the first statement of
\* CreateFolderRecursively and of GetByPath
FirstFrame(in) ==
    CASE in.entry = "CreateFolderRecursively" ->
            Frame(in.entry, "loop", normalizePath(in.path), in.kind, "")
      [] in.entry = "GetByPath" ->
            Frame(in.entry, "start", normalizePath(in.path), in.kind, "")
      [] OTHER -> Frame("ListAll", "next", << >>, "", in.under)

InitWalk ==
    /\ UploadIdle
    /\ FolderIdle
    /\ DigestIdle
    /\ OpIdle
    /\ CacheIdle
    /\ ConcIdle
    /\ \E in \in WalkEntries, tree \in WalkTrees :
          walk = [ input |-> in, stack |-> << FirstFrame(in) >>,
                   result |-> NoResult, calls |-> << >>, comps |-> << >>,
                   mutex |-> "free", tree |-> tree ]

Top == walk.stack[Len(walk.stack)]

Running(fn, at) ==
    /\ walk # << >>
    /\ walk.stack # << >>
    /\ Top.fn = fn
    /\ Top.pc = at

\* the stack with its top frame replaced
WithTop(f) == [ walk.stack EXCEPT ![Len(walk.stack)] = f ]

\* the top frame returns res to its caller
ReturnFrom(w, res) ==
    [ w EXCEPT !.stack = SubSeq(w.stack, 1, Len(w.stack) - 1),
               !.result = res ]

\* mutant: the loop index is not moved past the separator
Advance_OnSlash(i, j) == i + j

\* i = i + j + 1
Advance(i, j) == i + j + 1

\* mutant: the mutex stays locked when createFolderInternal returns
Unlock_Never(m) == m

\* defer drive.mutex.Unlock()
Unlock(m) == "free"

\* the head of the loop of CreateFolderRecursively: the next component
RecurLoop ==
    /\ Running("CreateFolderRecursively", "loop")
    /\ LET fullPath == Top.path
           i == Top.i
       IN  IF i < Len(fullPath)
           THEN LET parent == Slice(fullPath, 0, i)
                    remain == Slice(fullPath, i + 1, Len(fullPath))
                    j      == IndexSlash(remain)
                    name   == IF j < 0 THEN remain ELSE Slice(remain, 0, j)
                IN  walk' = [ walk EXCEPT
                       !.stack = WithTop([ Top EXCEPT !.pc = "lock",
                                                      !.parent = parent,
                                                      !.name = name,
                                                      !.j = j ]),
                       !.comps = Append(@, [ parent |-> parent,
                                             name |-> name,
                                             i |-> i,
                                             err |-> "running" ]) ]
           ELSE walk' = ReturnFrom(walk, walk.result)
    /\ UNCHANGED nonWalkVars

\* createFolderInternal: drive.mutex.Lock(), then
\* GetByPath(parent+"/"+name, FolderKind)
RecurLock ==
    /\ Running("CreateFolderRecursively", "lock")
    /\ walk.mutex = "free"
    /\ walk' = [ walk EXCEPT
          !.mutex = "held",
          !.stack = Append(WithTop([ Top EXCEPT !.pc = "checked" ]),
                           Frame("GetByPath", "start",
                                 normalizePath(Top.parent \o << Slash >>
                                               \o Top.name),
                                 FolderKind, "")) ]
    /\ UNCHANGED nonWalkVars

\* createFolderInternal returns id and err (the deferred Unlock runs), and
\* the loop returns or moves on to the next component
Leave(id, err) ==
    LET res  == Result(err, [ WalkNil EXCEPT !.NodeId = id ], << >>)
        w    == [ walk EXCEPT
                    !.mutex = Unlock(@),
                    !.comps = [ @ EXCEPT ![Len(@)].err = err ] ]
    IN  walk' = IF Top.j < 0 \/ err # "nil"
                THEN ReturnFrom(w, res)
                ELSE [ w EXCEPT
                         !.result = res,
                         !.stack = WithTop([ Top EXCEPT
                                       !.pc = "loop",
                                       !.i = Advance(Top.i, Top.j) ]) ]

\* the folder is there: return its id; else GetByPath(parent, FolderKind)
RecurChecked ==
    /\ Running("CreateFolderRecursively", "checked")
    /\ IF walk.result.err = "nil"
       THEN Leave(walk.result.node.NodeId, "nil")
       ELSE walk' = [ walk EXCEPT
               !.stack = Append(WithTop([ Top EXCEPT !.pc = "resolved" ]),
                                Frame("GetByPath", "start",
                                      normalizePath(Top.parent),
                                      FolderKind, "")) ]
    /\ UNCHANGED nonWalkVars

\* the parent was resolved, or findNodeError
RecurResolved ==
    /\ Running("CreateFolderRecursively", "resolved")
    /\ IF walk.result.err # "nil"
       THEN Leave("", "failed to find node")
       ELSE walk' = [ walk EXCEPT
               !.stack = WithTop([ Top EXCEPT
                             !.pc = "create",
                             !.under = walk.result.node.NodeId ]) ]
    /\ UNCHANGED nonWalkVars

\* the create request with check_name_mode "refuse": it fails, with or
\* without the folder made, or answers the id of the folder of that name
RecurCreate ==
    /\ Running("CreateFolderRecursively", "create")
    /\ LET there == { d \in walk.tree : /\ d.parent = Top.under
                                        /\ d.Name = Top.name
                                        /\ d.Type = FolderKind }
           made  == [ NodeId |-> WalkNewIds[Len(walk.comps)],
                      parent |-> Top.under, Name |-> Top.name,
                      Type |-> FolderKind ]
           tree  == IF there = { } THEN walk.tree \cup { made } ELSE walk.tree
           id    == IF there = { } THEN made.NodeId
                    ELSE (CHOOSE d \in there : TRUE).NodeId
       IN  \E applied, err \in BOOLEAN :
              /\ ~err => applied
              /\ LET call == WalkCall("create", << >>, FolderKind, Top.under,
                                      0, Top.name,
                                      IF err THEN "error" ELSE "ok",
                                      WalkNil, << >>, 0)
                     w == [ walk EXCEPT !.calls = Append(@, call),
                                        !.tree = IF applied THEN tree ELSE @,
                                        !.mutex = Unlock(@),
                                        !.comps = [ @ EXCEPT ![Len(@)].err =
                                           IF err
                                           THEN "failed to post create folder request"
                                           ELSE "nil" ] ]
                     res == IF err
                            THEN Result("failed to post create folder request",
                                        WalkNil, << >>)
                            ELSE Result("nil", [ WalkNil EXCEPT !.NodeId = id ],
                                        << >>)
                 IN  walk' = IF Top.j < 0 \/ err
                             THEN ReturnFrom(w, res)
                             ELSE [ w EXCEPT
                                      !.result = res,
                                      !.stack = WithTop([ Top EXCEPT
                                           !.pc = "loop",
                                           !.i = Advance(Top.i, Top.j) ]) ]
    /\ UNCHANGED nonWalkVars

\* mutant: only a 404 sends GetByPath to the parent
FallsBack_Only404(ans, kind) == ans.status = "404"

\* GetByPath goes on to the parent unless `node != nil && node.Type == kind`
FallsBack(ans, kind) == ans.status = "404" \/ ans.node.Type # kind

\* GetByPath up to the answer of get_by_path
GetByPathStart ==
    /\ Running("GetByPath", "start")
    /\ IF Top.path \in { << Slash >>, << >> }
       THEN walk' = ReturnFrom(walk, Result("nil", WalkRoot, << >>))
       ELSE \E ans \in ByPathAnswers(walk.tree, Top.path) :
               LET call == WalkCall("get_by_path", Top.path, Top.kind, "", 0,
                                    << >>, ans.status, ans.node, << >>, 0)
                   w == [ walk EXCEPT !.calls = Append(@, call) ]
                   sp == PathSplit(Top.path)
               IN  walk' =
                     IF ans.status = "error"
                     THEN ReturnFrom(w, Result("failed to request", WalkNil,
                                               << >>))
                     ELSE IF ~FallsBack(ans, Top.kind)
                     THEN ReturnFrom(w, Result("nil", ans.node, << >>))
                     ELSE [ w EXCEPT
                              !.stack =
                                 Append(WithTop([ Top EXCEPT !.pc = "parent",
                                                             !.name = sp.file ]),
                                        Frame("GetByPath", "start",
                                              normalizePath(sp.dir),
                                              FolderKind, "")) ]
    /\ UNCHANGED nonWalkVars

\* parentNode, err := drive.GetByPath(ctx, parent, FolderKind) has returned
GetByPathParent ==
    /\ Running("GetByPath", "parent")
    /\ walk' =
          IF walk.result.err # "nil"
          THEN ReturnFrom(walk, Result("failed to request", WalkNil, << >>))
          ELSE [ walk EXCEPT
                   !.stack = Append(WithTop([ Top EXCEPT !.pc = "find" ]),
                                    Frame("ListAll", "next", << >>, "",
                                          walk.result.node.NodeId)) ]
    /\ UNCHANGED nonWalkVars

\* findNameNode after ListAll: the first node with the name and the kind
GetByPathFind ==
    /\ Running("GetByPath", "find")
    /\ LET nodes == walk.result.nodes
           hits  == { k \in DOMAIN nodes :
                        /\ nodes[k].Name = Top.name
                        /\ (Top.kind = AnyKind \/ nodes[k].Type = Top.kind) }
       IN  walk' =
             IF walk.result.err # "nil"
             THEN ReturnFrom(walk, Result(walk.result.err, WalkNil, << >>))
             ELSE IF hits = { }
             THEN ReturnFrom(walk, Result("ErrNotExist", WalkNil, << >>))
             ELSE ReturnFrom(walk,
                     Result("nil",
                            nodes[CHOOSE k \in hits : \A l \in hits : k <= l],
                            << >>))
    /\ UNCHANGED nonWalkVars

\* mutant: no page is asked for before a marker is known
PagerNext_NoFirst(fresh, marker) == marker # 0

\* pager.Next: p.lNodes == nil || p.lNodes.NextMarker != ""
PagerNext(fresh, marker) == fresh \/ marker # 0

\* one turn of the loop of ListAll: p.Next(), p.Nodes(ctx), append
ListAllNext ==
    /\ Running("ListAll", "next")
    /\ IF ~PagerNext(Top.fresh, Top.marker)
       THEN walk' = ReturnFrom(walk, Result("nil", WalkNil, Top.nodes))
       ELSE \E ans \in PageAnswers(walk.tree, Top.under, Top.marker) :
               LET call == WalkCall("list", << >>, "", Top.under, Top.marker,
                                    << >>, ans.status, WalkNil, ans.items,
                                    ans.next)
                   w == [ walk EXCEPT !.calls = Append(@, call) ]
               IN  walk' =
                     IF ans.status = "error"
                     THEN ReturnFrom(w, Result("failed to list", WalkNil,
                                               << >>))
                     ELSE [ w EXCEPT
                              !.stack = WithTop([ Top EXCEPT
                                            !.fresh = FALSE,
                                            !.marker = ans.next,
                                            !.nodes = @ \o ans.items ]) ]
    /\ UNCHANGED nonWalkVars

NextWalk ==
    \/ RecurLoop
    \/ RecurLock
    \/ RecurChecked
    \/ RecurResolved
    \/ RecurCreate
    \/ GetByPathStart
    \/ GetByPathParent
    \/ GetByPathFind
    \/ ListAllNext

\* every remote call returns, so the caller always takes its next step
SpecWalk == InitWalk /\ [][NextWalk]_vars /\ WF_vars(NextWalk)

\* the call has returned
WalkDone == walk # << >> /\ walk.stack = << >>

\* s is the beginning of t
IsPrefix(s, t) == Len(s) <= Len(t) /\ SubSeq(t, 1, Len(s)) = s

\* the folder a component stands for: parent + "/" + name
CompPath(c) == c.parent \o << Slash >> \o c.name

\* C26: CreateFolderRecursively returns for every path.  The components it
\* hands to createFolderInternal are the components of the normalized path
\* from the root to the leaf, each once: every one starts where the one
\* before ended, and the last one of a call that succeeded ends the path.  No
\* component is tried after one that failed, and the error is the one
\* returned.  The mutex is free whenever the loop is between two components
\* and when the call has returned.  For "/" the root id is returned and no
\* request at all is issued.
C26_RecursiveCreateWalksPath ==
    /\ [](walk.input.entry = "CreateFolderRecursively" =>
            LET P == normalizePath(walk.input.path)
                comps == walk.comps
                n == Len(comps)
            IN  /\ \A k \in 1..n :
                      /\ IsPrefix(CompPath(comps[k]), P)
                      /\ IndexSlash(comps[k].name) < 0
                      /\ comps[k].parent = IF k = 1 THEN << >>
                                           ELSE CompPath(comps[k - 1])
                      /\ k < n => comps[k].err = "nil"
                /\ (WalkDone \/ Running("CreateFolderRecursively", "loop"))
                      => walk.mutex = "free"
                /\ WalkDone =>
                      /\ n >= 1
                      /\ walk.result.err = comps[n].err
                      /\ walk.result.err = "nil" => CompPath(comps[n]) = P
                /\ P = << Slash >> =>
                      /\ walk.calls = << >>
                      /\ WalkDone => /\ walk.result.err = "nil"
                                     /\ walk.result.node.NodeId = rootId)
    /\ (walk.input.entry = "CreateFolderRecursively" => <>WalkDone)

\* "/a/b" on the empty tree: both folders were created, a before b
C26_Witness ==
    /\ WalkDone
    /\ walk.input.entry = "CreateFolderRecursively"
    /\ walk.input.path = << "/", "a", "/", "b" >>
    /\ Len(walk.comps) = 2
    /\ walk.result.err = "nil"
    /\ walk.mutex = "free"
    /\ \E k, l \in DOMAIN walk.calls :
          /\ k < l
          /\ walk.calls[k].api = "create"
          /\ walk.calls[k].name = << "a" >>
          /\ walk.calls[l].api = "create"
          /\ walk.calls[l].name = << "b" >>

\* the directory path.Split gives for a path, normalized
DirOf(s) == normalizePath(PathSplit(s).dir)

\* C29: GetByPath returns the root for "/" without a request.  For any
\* other path a get_by_path request that fails otherwise than with 404 is
\* the last request and the call returns an error; one answered 404, or
\* with a node of another kind than asked for, is followed by the
\* resolution of the parent (the get_by_path request for the directory of
\* the path, or, the directory being the root, the listing of the root),
\* and the node returned then has the name and the kind asked for; one
\* answered with a node of the kind asked for returns that node.  The call
\* returns for every path.
C29_GetByPathFallsBackToParent ==
    /\ [](walk.input.entry = "GetByPath" =>
            LET P == normalizePath(walk.input.path)
                log == walk.calls
                n == Len(log)
                fell(k) == \/ log[k].status = "404"
                           \/ /\ log[k].status = "ok"
                              /\ log[k].node.Type # log[k].kind
            IN  /\ P = << Slash >> =>
                      /\ log = << >>
                      /\ WalkDone => walk.result = Result("nil", WalkRoot, << >>)
                /\ \A k \in 1..n :
                      log[k].api = "get_by_path" =>
                         /\ log[k].status = "error" =>
                               /\ k = n
                               /\ WalkDone => walk.result.err # "nil"
                         /\ fell(k) =>
                               IF k = n THEN ~WalkDone
                               ELSE IF DirOf(log[k].path) = << Slash >>
                               THEN /\ log[k + 1].api = "list"
                                    /\ log[k + 1].under = rootId
                               ELSE /\ log[k + 1].api = "get_by_path"
                                    /\ log[k + 1].path = DirOf(log[k].path)
                                    /\ log[k + 1].kind = FolderKind
                         /\ (log[k].status = "ok" /\ ~fell(k)) =>
                               IF k = 1
                               THEN /\ n = 1
                                    /\ WalkDone
                                    /\ walk.result =
                                          Result("nil", log[1].node, << >>)
                               ELSE k < n =>
                                    /\ log[k + 1].api = "list"
                                    /\ log[k + 1].under = log[k].node.NodeId
                /\ (WalkDone /\ n >= 1 /\ fell(1)
                       /\ walk.result.err = "nil") =>
                      /\ walk.result.node.Name = PathSplit(P).file
                      /\ \/ walk.input.kind = AnyKind
                         \/ walk.result.node.Type = walk.input.kind)
    /\ (walk.input.entry = "GetByPath" => <>WalkDone)

\* the file /a/f was not found by get_by_path and was found in the listing
\* of /a
C29_Witness ==
    /\ WalkDone
    /\ walk.input.entry = "GetByPath"
    /\ walk.input.path = << "/", "a", "/", "f" >>
    /\ walk.input.kind = FileKind
    /\ walk.calls[1].status = "404"
    /\ walk.calls[2].api = "get_by_path"
    /\ walk.calls[2].path = << "/", "a" >>
    /\ walk.calls[2].status = "ok"
    /\ walk.result.err = "nil"
    /\ walk.result.node.NodeId = "n2"

RECURSIVE ItemsOf(_, _)
\* the items of the first k answers, in the order they came
ItemsOf(log, k) ==
    IF k = 0 THEN << >> ELSE ItemsOf(log, k - 1) \o log[k].items

\* C30: ListAll asks for at least one page; the first request carries the
\* empty marker and every later one the next_marker of the answer before,
\* which was not empty: no page is asked for after an answer with an empty
\* next_marker, and the call does not return without error before one.
\* The nodes returned are the items of the pages in the order fetched.
\* When a page request fails the call returns the error and no items, and
\* asks for nothing more.
C30_ListAllFollowsMarkers ==
    walk.input.entry = "ListAll" =>
        LET log == walk.calls
            n == Len(log)
        IN  /\ \A k \in 1..n :
                  /\ log[k].api = "list"
                  /\ log[k].under = walk.input.under
                  /\ log[k].marker = IF k = 1 THEN 0 ELSE log[k - 1].next
                  /\ k < n => /\ log[k].status = "ok"
                              /\ log[k].next # 0
            /\ WalkDone =>
                  /\ n >= 1
                  /\ IF log[n].status = "ok"
                     THEN /\ log[n].next = 0
                          /\ walk.result.err = "nil"
                          /\ walk.result.nodes = ItemsOf(log, n)
                     ELSE /\ walk.result.err # "nil"
                          /\ walk.result.nodes = << >>

\* the folder /a was listed in more than one page
C30_Witness ==
    /\ WalkDone
    /\ walk.input.entry = "ListAll"
    /\ walk.input.under = "n1"
    /\ Len(walk.calls) >= 2
    /\ walk.calls[2].marker = walk.calls[1].next
    /\ walk.calls[1].next # 0
    /\ walk.result.err = "nil"
    /\ Len(walk.result.nodes) = 3

====
